---- MODULE Spec2Model ----
(***************************************************************************)
(* Transcript resolver (getYouTubeTranscript), its rate limiter            *)
(* (smartRateLimit) and the strategy B response parser                     *)
(* (fetchTranscriptWithYoutubeI) of lib/youtube-transcript, as a state     *)
(* machine.  One action is one synchronous run of JavaScript between two   *)
(* awaits: the event loop never interleaves anything inside such a run,    *)
(* and the millisecond clock does not advance inside it.                   *)
(*                                                                         *)
(* Time.  Date.now() is a whole number of milliseconds, dynamicDelay is    *)
(* 500 * 1.5^n and is not.  Every time value of the model is counted in    *)
(* ticks of 1/TicksPerMs ms, which represents 500 * 1.5^n exactly for      *)
(* every n whose value is below maxDelay; the clock is always a whole      *)
(* number of milliseconds.                                                 *)
(***************************************************************************)
EXTENDS Integers, Sequences, FiniteSets, TLC

VARIABLES
  clock,                \* Date.now(), in ticks
  lastRequestTime,      \* module variable, in ticks
  consecutiveFailures,  \* module variable
  pc,                   \* per call: where its async function is suspended
  step,                 \* per call: index of the attempt in progress (0..3)
  videoId,              \* per call: the argument
  paceDelay,            \* per call: dynamicDelay of the pace call in progress
  wakeAt,               \* per call: when the timer set by the pace is due
  result,               \* per call: what the call returned or threw
  attempts,             \* history: the strategy calls the call has made
  paceCalls,            \* history: smartRateLimit invocations of the call
  counterWrites,        \* history: the writes of the call to the counter
  lastDispatch,         \* history: time of the latest strategy call (-1: none)
  started,              \* history: resolve calls invoked so far
  ledger,               \* history: every write to the counter, in order
  rendering,            \* the formatTranscript call: arguments and outcome
  timing,               \* the formatTime call: arguments and outcome
  http,                 \* the request a route handles, and its answer
  client                \* the extractor component: its state and its calls

shared == <<lastRequestTime, consecutiveFailures>>
locals == <<pc, step, videoId, paceDelay, wakeAt, result>>
history == <<attempts, paceCalls, counterWrites, lastDispatch, started, ledger>>
vars == <<clock, shared, locals, history, rendering, timing, http, client>>

----------------------------------------------------------------------------
(* Bounds of the model *)

NumCalls == 2        \* resolve calls that may be in flight together
MaxStarted == 2      \* resolve calls invoked in one behaviour
HorizonMs == 2000    \* the clock stops advancing this long after the start
MaxProbe == 24       \* largest counter value the delay formula is probed at
SeqMaxStarted == 5   \* resolve calls invoked in one behaviour, one at a time
SeqHorizonMs == 12000  \* as HorizonMs, for calls one at a time
MaxEntries == 2      \* longest segment list in a strategy B answer
MaxSegments == 2     \* longest segment list given to formatTranscript
MaxHours == 1000     \* most hours of a time given to formatTime
RouteHorizonMs == 1500  \* as HorizonMs, for the requests to the routes

Calls == 1..NumCalls

----------------------------------------------------------------------------
(* RATE_LIMIT_CONFIG *)

baseDelay == 500
maxDelay == 5000
backoffMultiplierNum == 3    \* backoffMultiplier 1.5 = 3 / 2
backoffMultiplierDen == 2

TicksPerMs == backoffMultiplierDen * backoffMultiplierDen * backoffMultiplierDen
Ms(n) == n * TicksPerMs
\* Stands for every product too large to matter: far above maxDelay.
Overflow == 100 * Ms(maxDelay)

\* Time passes in steps of half the base delay (and up to the moment a timer
\* is due), so that a pace finds the time since the last request below, at
\* and above its delay.
TickMs == baseDelay \div 2
\* Date.now() when the module is loaded: the epoch clock is far past any
\* delay, so the first pace of the process never waits.
StartMs == 2 * maxDelay

Min(a, b) == IF a <= b THEN a ELSE b
Max(a, b) == IF a >= b THEN a ELSE b

\* baseDelay * Math.pow(backoffMultiplier, n), in ticks.  Exact while the
\* value is a whole number of ticks (n <= 5); above that it is rounded down
\* and saturates at Overflow, both far above maxDelay.
RECURSIVE backoff(_)
backoff(n) ==
  IF n = 0 THEN Ms(baseDelay)
  ELSE LET previous == backoff(n - 1)
           product == (previous * backoffMultiplierNum) \div backoffMultiplierDen
       IN IF product <= Overflow THEN product ELSE Overflow

\* Variant: the cap of maxDelay is left out.
dynamicDelay_uncapped(n) == backoff(n)

\* Math.min(baseDelay * Math.pow(backoffMultiplier, consecutiveFailures), maxDelay)
dynamicDelay(n) == Min(backoff(n), Ms(maxDelay))

----------------------------------------------------------------------------
(* Values and inputs *)

\* A string is the sequence of its characters.
Str1 == << "h", "i" >>
Str2 == << " ", "o", "k", " " >>
Blank == << " ", " " >>
IsSpace(c) == c \in {" ", "\n", "\t"}

RECURSIVE TrimLeft(_)
TrimLeft(s) ==
  IF s = << >> THEN s
  ELSE IF IsSpace(Head(s)) THEN TrimLeft(Tail(s)) ELSE s

RECURSIVE TrimRight(_)
TrimRight(s) ==
  IF s = << >> THEN s
  ELSE IF IsSpace(s[Len(s)]) THEN TrimRight(SubSeq(s, 1, Len(s) - 1)) ELSE s

\* String.prototype.trim
Trim(s) == TrimLeft(TrimRight(s))

\* The argument of a resolve call: a JavaScript value.
ValidId == [type |-> "string", value |-> "dQw4w9WgXcQ"]
VideoIdInputs ==
  { ValidId,
    [type |-> "string", value |-> ""],
    [type |-> "number", value |-> "42"] }

\* Variant: the empty string passes for a video id.
Falsy_emptyOk(v) == v.type \in {"undefined", "null"}

\* !videoId
Falsy(v) ==
  \/ v.type \in {"undefined", "null"}
  \/ v.type = "string" /\ v.value = ""
  \/ v.type = "number" /\ v.value = "0"

\* An error message is the sequence of its parts; a part is matched whole.
TransientMessage == << "fetch failed" >>
ErrorMessages ==
  { << "[YoutubeTranscript] ", "Transcript is disabled", " on this video" >>,
    << "Video unavailable" >>,
    << "This video is ", "private" >>,
    << "Video unavailable", ": ", "private" >>,
    << "private", ", ", "Video unavailable", ", ", "Transcript is disabled" >>,
    << "Private video" >>,
    TransientMessage }

\* String.prototype.includes, on the parts of a message
includes(message, part) == \E i \in 1..Len(message) : message[i] = part

\* What YoutubeTranscript.fetchTranscript hands back: segments as it reports
\* them.
RawTranscripts ==
  { << >>,
    << [text |-> Str1, offset |-> 0, duration |-> 2] >>,
    << [text |-> Str2, offset |-> 3, duration |-> 1],
       [text |-> Blank, offset |-> -1, duration |-> 4] >> }

AOutcomes ==
  { [kind |-> "throw", message |-> m, value |-> << >>] : m \in ErrorMessages }
    \cup { [kind |-> "return", message |-> << >>, value |-> t] :
             t \in RawTranscripts }
    \cup { [kind |-> "null", message |-> << >>, value |-> << >>] }

\* transcript.map(segment => ({text, offset, duration})) of lines 117-123
\* and 153-159
formatSegment(segment) ==
  [text |-> Trim(segment.text),
   offset |-> Max(0, segment.offset),
   duration |-> Max(0, segment.duration)]

formattedTranscript(transcript) ==
  [i \in 1..Len(transcript) |-> formatSegment(transcript[i])]

\* transcript && Array.isArray(transcript) && transcript.length > 0
NonEmptyArray(outcome) == outcome.kind = "return" /\ Len(outcome.value) > 0

\* The two URL forms of lines 143-146
urlFormats(id) ==
  << << "https://www.youtube.com/watch?v=", id >>,
     << "https://youtu.be/", id >> >>

----------------------------------------------------------------------------
(* Strategy B: fetchTranscriptWithYoutubeI *)

DigitValue(c) ==
  CASE c = "0" -> 0 [] c = "1" -> 1 [] c = "2" -> 2 [] c = "3" -> 3
    [] c = "4" -> 4 [] c = "5" -> 5 [] c = "6" -> 6 [] c = "7" -> 7
    [] c = "8" -> 8 [] c = "9" -> 9

\* parseInt of a string of decimal digits
RECURSIVE parseInt(_)
parseInt(s) ==
  IF s = << >> THEN 0
  ELSE 10 * parseInt(SubSeq(s, 1, Len(s) - 1)) + DigitValue(s[Len(s)])

\* x || "0"
OrZero(s) == IF s = << >> THEN << "0" >> ELSE s

RECURSIVE Concat(_)
Concat(ss) == IF ss = << >> THEN << >> ELSE Head(ss) \o Concat(Tail(ss))

\* An entry of the segment list.  text is snippet.text (empty: absent),
\* runs the run.text values of snippet.runs when it is an array, start_ms
\* and end_ms digit strings (empty: absent).
Entry(type, text, hasRuns, runs, start, end) ==
  [type |-> type, text |-> text, hasRuns |-> hasRuns, runs |-> runs,
   start_ms |-> start, end_ms |-> end]

NotAnArray == [isArray |-> FALSE, items |-> << >>]
ArrayOf(items) == [isArray |-> TRUE, items |-> items]

\* The transcript object: the places a segment list may sit in.
Response(kind, bodyContent, initialSegments, content, self) ==
  [kind |-> kind, bodyContent |-> bodyContent,
   initialSegments |-> initialSegments, content |-> content, self |-> self]

EntryOneToThree ==
  Entry("TranscriptSegment", Str1, FALSE, << >>,
        << "1", "0", "0", "0" >>, << "3", "0", "0", "0" >>)
EntryRuns ==
  Entry("TranscriptSegment", << >>, TRUE, << << "o" >>, << >>, << "k", " " >> >>,
        << "2", "5", "0", "0" >>, << "4", "9", "9", "9" >>)
EntryNoEnd ==
  Entry("TranscriptSegment", Str2, FALSE, << >>, << "7", "0", "0", "0" >>, << >>)
EntryBlank ==
  Entry("TranscriptSegment", Blank, FALSE, << >>, << "0" >>, << "9", "0", "0" >>)
EntryHeader ==
  Entry("TranscriptSectionHeader", Str1, FALSE, << >>, << "0" >>, << "0" >>)

BResponses ==
  { Response("null", NotAnArray, NotAnArray, NotAnArray, << >>),
    Response("object", NotAnArray, ArrayOf(<< EntryOneToThree >>), NotAnArray,
             << >>),
    Response("object", ArrayOf(<< EntryHeader, EntryRuns, EntryBlank >>),
             ArrayOf(<< EntryOneToThree >>), NotAnArray, << >>),
    Response("object", NotAnArray, NotAnArray, ArrayOf(<< EntryNoEnd >>), << >>),
    Response("object", ArrayOf(<< >>), ArrayOf(<< EntryOneToThree >>),
             NotAnArray, << >>),
    Response("object", NotAnArray, NotAnArray, NotAnArray, << >>),
    Response("array", NotAnArray, NotAnArray, NotAnArray,
             << EntryHeader, EntryBlank >>) }

BOutcomes ==
  { [kind |-> "throw", response |-> Response("null", NotAnArray, NotAnArray,
                                            NotAnArray, << >>)] }
    \cup { [kind |-> "return", response |-> r] : r \in BResponses }

\* Variant: the top-level content is looked at before initial_segments.
transcriptContent_contentFirst(r) ==
  IF r.bodyContent.isArray THEN r.bodyContent.items
  ELSE IF r.content.isArray THEN r.content.items
  ELSE IF r.initialSegments.isArray THEN r.initialSegments.items
  ELSE IF r.kind = "array" THEN r.self
  ELSE << >>

\* Lines 53-70: the first place that holds an array
transcriptContent(r) ==
  IF r.bodyContent.isArray THEN r.bodyContent.items
  ELSE IF r.initialSegments.isArray THEN r.initialSegments.items
  ELSE IF r.content.isArray THEN r.content.items
  ELSE IF r.kind = "array" THEN r.self
  ELSE << >>

\* Lines 81-86
entryText(item) ==
  IF item.text # << >> THEN item.text
  ELSE IF item.hasRuns THEN Concat(item.runs)
  ELSE << >>

\* Variant: the times are rounded to the nearest second, not down.
entrySegment_rounded(item) ==
  LET startMs == parseInt(OrZero(item.start_ms))
      endMs == parseInt(OrZero(item.end_ms))
      durationMs == endMs - startMs
  IN [text |-> Trim(entryText(item)),
      offset |-> (startMs + 500) \div 1000,
      duration |-> (durationMs + 500) \div 1000]

\* Lines 87-95
entrySegment(item) ==
  LET startMs == parseInt(OrZero(item.start_ms))
      endMs == parseInt(OrZero(item.end_ms))
      durationMs == endMs - startMs
  IN [text |-> Trim(entryText(item)),
      offset |-> startMs \div 1000,
      duration |-> durationMs \div 1000]

\* Lines 75-98: the entries kept, in order
RECURSIVE segmentsOf(_)
segmentsOf(items) ==
  IF items = << >> THEN << >>
  ELSE LET item == Head(items)
           rest == segmentsOf(Tail(items))
       IN IF item.type = "TranscriptSegment" /\ Trim(entryText(item)) # << >>
          THEN << entrySegment(item) >> \o rest
          ELSE rest

\* The outcome of one strategy B call: it throws, or returns segments.
fetchTranscriptWithYoutubeI(outcome) ==
  IF outcome.kind = "throw" \/ outcome.response.kind = "null"
    THEN [threw |-> TRUE, segments |-> << >>]
  ELSE IF Len(transcriptContent(outcome.response)) = 0
    THEN [threw |-> TRUE, segments |-> << >>]
  ELSE [threw |-> FALSE,
        segments |-> segmentsOf(transcriptContent(outcome.response))]

----------------------------------------------------------------------------
(* The resolver and the rate limiter *)

InvalidIdMessage == << "Invalid video ID provided" >>
DisabledMessage == << "Transcripts are disabled for this video" >>
UnavailableMessage == << "Video is unavailable or has been removed" >>
PrivateMessage == << "Video is private or restricted" >>
\* The template of lines 166-172
NotFoundMessage(v) ==
  << "No transcript available for video ", v.value,
     ". This could be because: [...] captions available on YouTube directly." >>

NoResult == [kind |-> "none", message |-> << >>, value |-> << >>]
Returned(segments) == [kind |-> "return", message |-> << >>, value |-> segments]
Thrown(message) == [kind |-> "throw", message |-> message, value |-> << >>]

\* Variant: the test for "private" comes first.
earlyExitMessage_privateFirst(message) ==
  IF includes(message, "private") THEN PrivateMessage
  ELSE IF includes(message, "Transcript is disabled") THEN DisabledMessage
  ELSE IF includes(message, "Video unavailable") THEN UnavailableMessage
  ELSE << >>

\* Variant: the test for "private" is left out.
earlyExitMessage_noPrivate(message) ==
  IF includes(message, "Transcript is disabled") THEN DisabledMessage
  ELSE IF includes(message, "Video unavailable") THEN UnavailableMessage
  ELSE << >>

\* Lines 127-133: the message the first attempt's error is translated to
\* (empty: the error is swallowed)
earlyExitMessage(message) ==
  IF includes(message, "Transcript is disabled") THEN DisabledMessage
  ELSE IF includes(message, "Video unavailable") THEN UnavailableMessage
  ELSE IF includes(message, "private") THEN PrivateMessage
  ELSE << >>

\* Variant: the two URL forms are tried in the other order.
attemptOf_swapped(n, v) ==
  IF n = 0 THEN [strategy |-> "A", arg |-> << v.value >>]
  ELSE IF n = 1 THEN [strategy |-> "B", arg |-> << v.value >>]
  ELSE [strategy |-> "A", arg |-> urlFormats(v.value)[4 - n]]

\* The strategy and the argument of attempt number n (0..3) of a call
attemptOf(n, v) ==
  IF n = 0 THEN [strategy |-> "A", arg |-> << v.value >>]
  ELSE IF n = 1 THEN [strategy |-> "B", arg |-> << v.value >>]
  ELSE [strategy |-> "A", arg |-> urlFormats(v.value)[n - 1]]

\* The number of the last attempt: the loop of line 147 ends after it
LastAttempt == 1 + Len(urlFormats(""))

\* No formatTranscript call has been made
NoRendering ==
  [stage |-> "none", transcript |-> << >>, format |-> << >>,
   threw |-> FALSE, message |-> << >>, output |-> << >>]

\* No formatTime call has been made
NoTiming ==
  [stage |-> "none", seconds |-> [whole |-> 0, fracHi |-> 0, fracLo |-> 0],
   vtt |-> FALSE, output |-> << >>]

\* No request is being handled
NoRequest ==
  [stage |-> "none", route |-> "none",
   videoId |-> [present |-> FALSE, chars |-> << >>],
   format |-> [present |-> FALSE, chars |-> << >>],
   status |-> 0, error |-> "", caught |-> "none", message |-> << >>]

\* types/youtube.ts, lines 74-77
BATCH_SIZE == 5
BATCH_DELAY == 2000
MAX_RETRIES == 3
RETRY_DELAY == 1000

\* The videos a search has listed are 1..n, n <= MaxVideos; in one
\* extraction the videos that meet a fault (a fetch that does not give a
\* response that is ok, a body that is no JSON, an error field in the body
\* of a response that is ok) are MaxFaulty at most.
MaxVideos == 6
MaxFaulty == 1
Videos == 1..MaxVideos

\* A processVideoTranscript call of the component, with the fetchWithRetry
\* call it makes: where it is suspended, the loop variable i, what is left
\* of the timer of its wait, the status of the response it was given.
NoCall == [pc |-> "idle", i |-> 0, timer |-> 0, status |-> 0]

\* The handleExtract call: where it is suspended, the loop variable i, the
\* list it iterates, what is left of the timer between two batches.
NoExtract == [pc |-> "idle", i |-> 0, selectedVideos |-> << >>, timer |-> 0]

\* The component before a search: its state (lines 136-141), no call in
\* progress; order and faulty are history (the processVideoTranscript
\* calls in the order they were made, the videos that met a fault).
NoClient ==
  [videos |-> << >>, processing |-> << >>, isExtracting |-> FALSE,
   searchError |-> "", extract |-> NoExtract,
   calls |-> [v \in Videos |-> NoCall], order |-> << >>, faulty |-> { }]

Init ==
  /\ clock = Ms(StartMs)
  /\ lastRequestTime = 0
  /\ consecutiveFailures = 0
  /\ pc = [p \in Calls |-> "idle"]
  /\ step = [p \in Calls |-> 0]
  /\ videoId = [p \in Calls |-> ValidId]
  /\ paceDelay = [p \in Calls |-> 0]
  /\ wakeAt = [p \in Calls |-> 0]
  /\ result = [p \in Calls |-> NoResult]
  /\ attempts = [p \in Calls |-> << >>]
  /\ paceCalls = [p \in Calls |-> 0]
  /\ counterWrites = [p \in Calls |-> << >>]
  /\ lastDispatch = -1
  /\ started = 0
  /\ ledger = << >>
  /\ rendering = NoRendering
  /\ timing = NoTiming
  /\ http = NoRequest
  /\ client = NoClient

\* Variant: the wait is the whole delay, whatever time has passed already.
smartRateLimit_fullWait(p) ==
  LET now == clock
      delay == dynamicDelay(consecutiveFailures)
      timeSinceLastRequest == now - lastRequestTime
  IN /\ paceCalls' = [paceCalls EXCEPT ![p] = @ + 1]
     /\ paceDelay' = [paceDelay EXCEPT ![p] = delay]
     /\ IF timeSinceLastRequest < delay
          THEN /\ wakeAt' = [wakeAt EXCEPT ![p] = now + delay]
               /\ pc' = [pc EXCEPT ![p] = "waiting"]
               /\ UNCHANGED lastRequestTime
          ELSE /\ wakeAt' = [wakeAt EXCEPT ![p] = 0]
               /\ pc' = [pc EXCEPT ![p] = "paced"]
               /\ lastRequestTime' = now

\* smartRateLimit, from its call to its first await (lines 28-37), or to its
\* end when it does not wait (lines 28-35, 39)
smartRateLimit(p) ==
  LET now == clock
      delay == dynamicDelay(consecutiveFailures)
      timeSinceLastRequest == now - lastRequestTime
      waitTime == delay - timeSinceLastRequest
  IN /\ paceCalls' = [paceCalls EXCEPT ![p] = @ + 1]
     /\ paceDelay' = [paceDelay EXCEPT ![p] = delay]
     /\ IF timeSinceLastRequest < delay
          THEN /\ wakeAt' = [wakeAt EXCEPT ![p] = now + waitTime]
               /\ pc' = [pc EXCEPT ![p] = "waiting"]
               /\ UNCHANGED lastRequestTime
          ELSE /\ wakeAt' = [wakeAt EXCEPT ![p] = 0]
               /\ pc' = [pc EXCEPT ![p] = "paced"]
               /\ lastRequestTime' = now

\* Lines 105-112: the call, up to its first await
getYouTubeTranscript(p, v) ==
  /\ pc[p] = "idle"
  /\ started' = started + 1
  /\ videoId' = [videoId EXCEPT ![p] = v]
  /\ IF Falsy(v) \/ v.type # "string"
       THEN /\ pc' = [pc EXCEPT ![p] = "done"]
            /\ result' = [result EXCEPT ![p] = Thrown(InvalidIdMessage)]
            /\ UNCHANGED <<shared, paceDelay, wakeAt, paceCalls>>
       ELSE /\ smartRateLimit(p)
            /\ UNCHANGED <<consecutiveFailures, result>>
  /\ UNCHANGED <<clock, step, attempts, counterWrites, lastDispatch, ledger,
                 rendering, timing>>

\* A call that is made by other code than a route
Invoke(p, v) == getYouTubeTranscript(p, v) /\ UNCHANGED <<http, client>>

\* Variant: a pace that returns makes every other waiting call wait its whole
\* delay again, as a limiter that serialises the calls would.
TimerFires_serialised(p) ==
  /\ pc[p] = "waiting"
  /\ clock >= wakeAt[p]
  /\ lastRequestTime' = clock
  /\ pc' = [pc EXCEPT ![p] = "paced"]
  /\ wakeAt' = [q \in Calls |->
       IF q = p THEN 0
       ELSE IF pc[q] = "waiting" THEN clock + paceDelay[q] ELSE wakeAt[q]]
  /\ UNCHANGED <<clock, consecutiveFailures, step, videoId, paceDelay,
                 result, history, rendering, timing, http, client>>

\* Variant: the returning pace records the time its timer was due, not the
\* time it is now.
TimerFires_stale(p) ==
  /\ pc[p] = "waiting"
  /\ clock >= wakeAt[p]
  /\ lastRequestTime' = wakeAt[p]
  /\ pc' = [pc EXCEPT ![p] = "paced"]
  /\ wakeAt' = [wakeAt EXCEPT ![p] = 0]
  /\ UNCHANGED <<clock, consecutiveFailures, step, videoId, paceDelay,
                 result, history, rendering, timing, http, client>>

\* Lines 37-39: the timer fires, not before the delay it was given
TimerFires(p) ==
  /\ pc[p] = "waiting"
  /\ clock >= wakeAt[p]
  /\ lastRequestTime' = clock
  /\ pc' = [pc EXCEPT ![p] = "paced"]
  /\ wakeAt' = [wakeAt EXCEPT ![p] = 0]
  /\ UNCHANGED <<clock, consecutiveFailures, step, videoId, paceDelay,
                 result, history, rendering, timing, http, client>>

\* Lines 114, 137, 150: the strategy call that follows a pace
Dispatch(p) ==
  /\ pc[p] = "paced"
  /\ attempts' = [attempts EXCEPT ![p] =
       Append(@, [strategy |-> attemptOf(step[p], videoId[p]).strategy,
                  arg |-> attemptOf(step[p], videoId[p]).arg,
                  outcome |-> "pending"])]
  /\ lastDispatch' = clock
  /\ pc' = [pc EXCEPT ![p] = "fetching"]
  /\ paceDelay' = [paceDelay EXCEPT ![p] = 0]
  /\ UNCHANGED <<clock, shared, step, videoId, wakeAt, result, paceCalls,
                 counterWrites, started, ledger, rendering, timing, http, client>>

\* The latest attempt of p ended with this outcome: "nonempty", or "failed"
\* (it threw, or returned nothing or an empty list)
Outcome(p, what) ==
  attempts' = [attempts EXCEPT ![p][Len(attempts[p])].outcome = what]

\* Variant: the counter is decremented without the floor of 0.
Succeed_unfloored(p, segments) ==
  /\ consecutiveFailures' = consecutiveFailures - 1
  /\ counterWrites' = [counterWrites EXCEPT ![p] = Append(@, "dec")]
  /\ ledger' = Append(ledger, "dec")
  /\ result' = [result EXCEPT ![p] = Returned(segments)]
  /\ pc' = [pc EXCEPT ![p] = "done"]
  /\ Outcome(p, "nonempty")
  /\ UNCHANGED <<lastRequestTime, step, paceDelay, wakeAt, paceCalls>>

\* Variant: a success counts as a failure.
Succeed_increments(p, segments) ==
  /\ consecutiveFailures' = consecutiveFailures + 1
  /\ counterWrites' = [counterWrites EXCEPT ![p] = Append(@, "dec")]
  /\ ledger' = Append(ledger, "dec")
  /\ result' = [result EXCEPT ![p] = Returned(segments)]
  /\ pc' = [pc EXCEPT ![p] = "done"]
  /\ Outcome(p, "nonempty")
  /\ UNCHANGED <<lastRequestTime, step, paceDelay, wakeAt, paceCalls>>

\* Variant: a success leaves the counter as it is.
Succeed_keeps(p, segments) ==
  /\ consecutiveFailures' = consecutiveFailures
  /\ counterWrites' = [counterWrites EXCEPT ![p] = Append(@, "dec")]
  /\ ledger' = Append(ledger, "dec")
  /\ result' = [result EXCEPT ![p] = Returned(segments)]
  /\ pc' = [pc EXCEPT ![p] = "done"]
  /\ Outcome(p, "nonempty")
  /\ UNCHANGED <<lastRequestTime, step, paceDelay, wakeAt, paceCalls>>

\* Lines 116+124, 139-140, 152+160: a non-empty result
Succeed(p, segments) ==
  /\ consecutiveFailures' = Max(0, consecutiveFailures - 1)
  /\ counterWrites' = [counterWrites EXCEPT ![p] = Append(@, "dec")]
  /\ ledger' = Append(ledger, "dec")
  /\ result' = [result EXCEPT ![p] = Returned(segments)]
  /\ pc' = [pc EXCEPT ![p] = "done"]
  /\ Outcome(p, "nonempty")
  /\ UNCHANGED <<lastRequestTime, step, paceDelay, wakeAt, paceCalls>>

\* Lines 127-133: the first attempt's error is permanent
EarlyExit(p, message) ==
  /\ result' = [result EXCEPT ![p] = Thrown(message)]
  /\ pc' = [pc EXCEPT ![p] = "done"]
  /\ Outcome(p, "failed")
  /\ UNCHANGED <<shared, step, paceDelay, wakeAt, paceCalls,
                 counterWrites, ledger>>

\* Variant: the next attempt is made without a pace.
NextAttempt_unpaced(p) ==
  /\ step' = [step EXCEPT ![p] = @ + 1]
  /\ pc' = [pc EXCEPT ![p] = "paced"]
  /\ Outcome(p, "failed")
  /\ UNCHANGED <<shared, paceDelay, wakeAt, paceCalls, result, counterWrites,
                 ledger>>

\* Lines 135-136, 147-149: on to the next attempt, which starts with a pace
NextAttempt(p) ==
  /\ step' = [step EXCEPT ![p] = @ + 1]
  /\ smartRateLimit(p)
  /\ Outcome(p, "failed")
  /\ UNCHANGED <<consecutiveFailures, result, counterWrites, ledger>>

\* Variant: the call writes one more than the counter was when no call had
\* failed, and so loses the failures that other calls counted meanwhile.
Exhausted_lostUpdate(p) ==
  /\ consecutiveFailures' = 1
  /\ counterWrites' = [counterWrites EXCEPT ![p] = Append(@, "inc")]
  /\ ledger' = Append(ledger, "inc")
  /\ result' = [result EXCEPT ![p] = Thrown(NotFoundMessage(videoId[p]))]
  /\ pc' = [pc EXCEPT ![p] = "done"]
  /\ Outcome(p, "failed")
  /\ UNCHANGED <<lastRequestTime, step, paceDelay, wakeAt, paceCalls>>

\* Variant: the failure is counted twice.
Exhausted_twice(p) ==
  /\ consecutiveFailures' = consecutiveFailures + 2
  /\ counterWrites' = [counterWrites EXCEPT ![p] = Append(@, "inc")]
  /\ ledger' = Append(ledger, "inc")
  /\ result' = [result EXCEPT ![p] = Thrown(NotFoundMessage(videoId[p]))]
  /\ pc' = [pc EXCEPT ![p] = "done"]
  /\ Outcome(p, "failed")
  /\ UNCHANGED <<lastRequestTime, step, paceDelay, wakeAt, paceCalls>>

\* Lines 164-173: every attempt failed
Exhausted(p) ==
  /\ consecutiveFailures' = consecutiveFailures + 1
  /\ counterWrites' = [counterWrites EXCEPT ![p] = Append(@, "inc")]
  /\ ledger' = Append(ledger, "inc")
  /\ result' = [result EXCEPT ![p] = Thrown(NotFoundMessage(videoId[p]))]
  /\ pc' = [pc EXCEPT ![p] = "done"]
  /\ Outcome(p, "failed")
  /\ UNCHANGED <<lastRequestTime, step, paceDelay, wakeAt, paceCalls>>

\* Lines 113-134: the first strategy A call settles
FirstAttemptSettles(p, o) ==
  /\ pc[p] = "fetching"
  /\ step[p] = 0
  /\ IF NonEmptyArray(o) THEN Succeed(p, formattedTranscript(o.value))
     ELSE IF o.kind = "throw" /\ earlyExitMessage(o.message) # << >>
       THEN EarlyExit(p, earlyExitMessage(o.message))
     ELSE NextAttempt(p)
  /\ UNCHANGED <<clock, videoId, lastDispatch, started, rendering, timing, http, client>>

\* Variant: an error of strategy B ends the call with that error.
StrategyBSettles_propagates(p, o) ==
  /\ pc[p] = "fetching"
  /\ step[p] = 1
  /\ LET youtubeITranscript == fetchTranscriptWithYoutubeI(o)
     IN IF youtubeITranscript.threw
          THEN EarlyExit(p, << "No transcript content found in response" >>)
        ELSE IF Len(youtubeITranscript.segments) > 0
          THEN Succeed(p, youtubeITranscript.segments)
        ELSE NextAttempt(p)
  /\ UNCHANGED <<clock, videoId, lastDispatch, started, rendering, timing, http, client>>

\* Lines 135-142: the strategy B call settles
StrategyBSettles(p, o) ==
  /\ pc[p] = "fetching"
  /\ step[p] = 1
  /\ LET youtubeITranscript == fetchTranscriptWithYoutubeI(o)
     IN IF ~youtubeITranscript.threw /\ Len(youtubeITranscript.segments) > 0
          THEN Succeed(p, youtubeITranscript.segments)
          ELSE NextAttempt(p)
  /\ UNCHANGED <<clock, videoId, lastDispatch, started, rendering, timing, http, client>>

\* Variant: a permanent error of a URL retry ends the call as one of the
\* first attempt does.
UrlAttemptSettles_earlyExit(p, o) ==
  /\ pc[p] = "fetching"
  /\ step[p] \in 2..LastAttempt
  /\ IF NonEmptyArray(o) THEN Succeed(p, formattedTranscript(o.value))
     ELSE IF o.kind = "throw" /\ earlyExitMessage(o.message) # << >>
       THEN EarlyExit(p, earlyExitMessage(o.message))
     ELSE IF step[p] < LastAttempt THEN NextAttempt(p)
     ELSE Exhausted(p)
  /\ UNCHANGED <<clock, videoId, lastDispatch, started, rendering, timing, http, client>>

\* Variant: after the last URL form has failed the loop is run once more
\* from the first.
UrlAttemptSettles_again(p, o) ==
  /\ pc[p] = "fetching"
  /\ step[p] \in 2..LastAttempt
  /\ IF NonEmptyArray(o) THEN Succeed(p, formattedTranscript(o.value))
     ELSE IF step[p] < LastAttempt THEN NextAttempt(p)
     ELSE IF Len(attempts[p]) <= 4
       THEN /\ step' = [step EXCEPT ![p] = 2]
            /\ smartRateLimit(p)
            /\ Outcome(p, "failed")
            /\ UNCHANGED <<consecutiveFailures, result, counterWrites, ledger>>
     ELSE Exhausted(p)
  /\ UNCHANGED <<clock, videoId, lastDispatch, started, rendering, timing, http, client>>

\* Variant: the loop stops after the first URL form.
UrlAttemptSettles_oneUrl(p, o) ==
  /\ pc[p] = "fetching"
  /\ step[p] \in 2..LastAttempt
  /\ IF NonEmptyArray(o) THEN Succeed(p, formattedTranscript(o.value))
     ELSE Exhausted(p)
  /\ UNCHANGED <<clock, videoId, lastDispatch, started, rendering, timing, http, client>>

\* Lines 147-163: a strategy A call on a URL settles
UrlAttemptSettles(p, o) ==
  /\ pc[p] = "fetching"
  /\ step[p] \in 2..LastAttempt
  /\ IF NonEmptyArray(o) THEN Succeed(p, formattedTranscript(o.value))
     ELSE IF step[p] < LastAttempt THEN NextAttempt(p)
     ELSE Exhausted(p)
  /\ UNCHANGED <<clock, videoId, lastDispatch, started, rendering, timing, http, client>>

\* The caller takes the result; the slot is free for another call.
Resume(p) ==
  /\ pc[p] = "done"
  /\ pc' = [pc EXCEPT ![p] = "idle"]
  /\ step' = [step EXCEPT ![p] = 0]
  /\ videoId' = [videoId EXCEPT ![p] = ValidId]
  /\ result' = [result EXCEPT ![p] = NoResult]
  /\ attempts' = [attempts EXCEPT ![p] = << >>]
  /\ paceCalls' = [paceCalls EXCEPT ![p] = 0]
  /\ counterWrites' = [counterWrites EXCEPT ![p] = << >>]
  /\ UNCHANGED <<clock, shared, paceDelay, wakeAt, lastDispatch, started,
                 ledger, rendering, timing>>

\* The caller is other code than a route
Complete(p) == Resume(p) /\ UNCHANGED <<http, client>>

\* The next whole millisecond at or after t
CeilMs(t) == ((t + TicksPerMs - 1) \div TicksPerMs) * TicksPerMs

\* Time passes while every call is suspended on a timer or on the network
\* (a settled pace is followed by its strategy call in the same turn of the
\* event loop): by one step, or up to the moment a pending timer is due.
Tick(horizon) ==
  /\ \A p \in Calls : pc[p] # "paced"
  /\ \E t \in {clock + Ms(TickMs)}
         \cup {CeilMs(wakeAt[p]) : p \in {q \in Calls : pc[q] = "waiting"}} :
       /\ t > clock
       /\ t <= Ms(StartMs + horizon)
       /\ clock' = t
  /\ UNCHANGED <<shared, locals, history, rendering, timing, http, client>>

Next ==
  \/ \E p \in Calls, v \in VideoIdInputs : started < MaxStarted /\ Invoke(p, v)
  \/ \E p \in Calls : TimerFires(p)
  \/ \E p \in Calls : Dispatch(p)
  \/ \E p \in Calls, o \in AOutcomes : FirstAttemptSettles(p, o)
  \/ \E p \in Calls, o \in BOutcomes : StrategyBSettles(p, o)
  \/ \E p \in Calls, o \in AOutcomes : UrlAttemptSettles(p, o)
  \/ \E p \in Calls : Complete(p)
  \/ Tick(HorizonMs)

Spec == Init /\ [][Next]_vars

\* Resolve calls one at a time: a call is invoked only when every earlier
\* call has ended and its caller has taken the result. Which slot a call
\* takes makes no difference when all are free: it takes the first.

SeqNext ==
  \/ \E v \in VideoIdInputs :
       /\ started < SeqMaxStarted
       /\ \A q \in Calls : pc[q] = "idle"
       /\ Invoke(1, v)
  \/ \E p \in Calls : TimerFires(p)
  \/ \E p \in Calls : Dispatch(p)
  \/ \E p \in Calls, o \in AOutcomes : FirstAttemptSettles(p, o)
  \/ \E p \in Calls, o \in BOutcomes : StrategyBSettles(p, o)
  \/ \E p \in Calls, o \in AOutcomes : UrlAttemptSettles(p, o)
  \/ \E p \in Calls : Complete(p)
  \/ Tick(SeqHorizonMs)

SeqSpec == Init /\ [][SeqNext]_vars

\* Calls that run to their end.  Time passes up to the horizon as in Spec,
\* and past it up to the moment the next timer is due, so that no timer is
\* left pending for ever; two calls are invoked at most, in the slots of
\* LiveCalls.  A pending timer fires, the strategy call that follows a pace
\* is made, and a strategy call that was made settles.
LiveCalls == {1, 2}

WaitElapses ==
  /\ \A p \in Calls : pc[p] # "paced"
  /\ \E p \in Calls :
       /\ pc[p] = "waiting"
       /\ CeilMs(wakeAt[p]) > clock
       /\ \A q \in Calls :
            (pc[q] = "waiting" /\ CeilMs(wakeAt[q]) > clock)
              => CeilMs(wakeAt[p]) <= CeilMs(wakeAt[q])
       /\ clock' = CeilMs(wakeAt[p])
  /\ UNCHANGED <<shared, locals, history, rendering, timing, http, client>>

LiveNext ==
  \/ \E p \in LiveCalls, v \in VideoIdInputs :
       started < Cardinality(LiveCalls) /\ Invoke(p, v)
  \/ \E p \in Calls : TimerFires(p)
  \/ \E p \in Calls : Dispatch(p)
  \/ \E p \in Calls, o \in AOutcomes : FirstAttemptSettles(p, o)
  \/ \E p \in Calls, o \in BOutcomes : StrategyBSettles(p, o)
  \/ \E p \in Calls, o \in AOutcomes : UrlAttemptSettles(p, o)
  \/ \E p \in Calls : Complete(p)
  \/ Tick(HorizonMs)
  \/ WaitElapses

LiveSpec ==
  /\ Init
  /\ [][LiveNext]_vars
  /\ WF_vars(WaitElapses)
  /\ \A p \in LiveCalls :
       /\ WF_vars(TimerFires(p))
       /\ WF_vars(Dispatch(p))
       /\ WF_vars(\E o \in AOutcomes : FirstAttemptSettles(p, o))
       /\ WF_vars(\E o \in BOutcomes : StrategyBSettles(p, o))
       /\ WF_vars(\E o \in AOutcomes : UrlAttemptSettles(p, o))

\* The delay formula on its own: the counter is any value up to MaxProbe
\* (the state after that many exhausted calls), the last request was made
\* just now or long ago, and calls are invoked.
DelayInit ==
  /\ clock = Ms(StartMs)
  /\ lastRequestTime \in {0, Ms(StartMs)}
  /\ consecutiveFailures \in 0..MaxProbe
  /\ pc = [p \in Calls |-> "idle"]
  /\ step = [p \in Calls |-> 0]
  /\ videoId = [p \in Calls |-> ValidId]
  /\ paceDelay = [p \in Calls |-> 0]
  /\ wakeAt = [p \in Calls |-> 0]
  /\ result = [p \in Calls |-> NoResult]
  /\ attempts = [p \in Calls |-> << >>]
  /\ paceCalls = [p \in Calls |-> 0]
  /\ counterWrites = [p \in Calls |-> << >>]
  /\ lastDispatch = -1
  /\ started = 0
  /\ ledger = << >>
  /\ rendering = NoRendering
  /\ timing = NoTiming
  /\ http = NoRequest
  /\ client = NoClient

DelayNext == \E p \in Calls, v \in VideoIdInputs : Invoke(p, v)

DelaySpec == DelayInit /\ [][DelayNext]_vars

\* Strategy B on its own: a call is waiting for the answer of strategy B,
\* its first attempt having failed, and the answer is any of ParseOutcomes:
\* every way of filling the three places of an object with no array, an
\* empty array or a one-entry array, and every list of up to MaxEntries
\* entries in each of the four places.
Entries == { EntryOneToThree, EntryRuns, EntryNoEnd, EntryBlank, EntryHeader }
EntryLists == UNION { [1..n -> Entries] : n \in 0..MaxEntries }
PlaceOptions ==
  { NotAnArray, ArrayOf(<< >>), ArrayOf(<< EntryOneToThree >>),
    ArrayOf(<< EntryHeader >>) }
ParseResponses ==
  { Response("object", b, i, c, << >>) :
      b \in PlaceOptions, i \in PlaceOptions, c \in PlaceOptions }
    \cup { Response("object", ArrayOf(l), NotAnArray, NotAnArray, << >>) :
             l \in EntryLists }
    \cup { Response("object", NotAnArray, ArrayOf(l), NotAnArray, << >>) :
             l \in EntryLists }
    \cup { Response("object", NotAnArray, NotAnArray, ArrayOf(l), << >>) :
             l \in EntryLists }
    \cup { Response("array", NotAnArray, NotAnArray, NotAnArray, l) :
             l \in EntryLists }
ParseOutcomes ==
  BOutcomes \cup { [kind |-> "return", response |-> r] : r \in ParseResponses }

ParseInit ==
  /\ clock = Ms(StartMs)
  /\ lastRequestTime \in {Ms(StartMs) - Ms(maxDelay), Ms(StartMs)}
  /\ consecutiveFailures \in 0..(2 * LastAttempt)
  /\ pc = [p \in Calls |-> IF p = 1 THEN "fetching" ELSE "idle"]
  /\ step = [p \in Calls |-> IF p = 1 THEN 1 ELSE 0]
  /\ videoId = [p \in Calls |-> ValidId]
  /\ paceDelay = [p \in Calls |-> 0]
  /\ wakeAt = [p \in Calls |-> 0]
  /\ result = [p \in Calls |-> NoResult]
  /\ attempts = [p \in Calls |->
       IF p = 1
         THEN << [strategy |-> "A", arg |-> << ValidId.value >>,
                  outcome |-> "failed"],
                 [strategy |-> "B", arg |-> << ValidId.value >>,
                  outcome |-> "pending"] >>
         ELSE << >>]
  /\ paceCalls = [p \in Calls |-> IF p = 1 THEN 2 ELSE 0]
  /\ counterWrites = [p \in Calls |-> << >>]
  /\ lastDispatch = lastRequestTime
  /\ started = 1
  /\ ledger = << >>
  /\ rendering = NoRendering
  /\ timing = NoTiming
  /\ http = NoRequest
  /\ client = NoClient

ParseNext == \E p \in Calls, o \in ParseOutcomes : StrategyBSettles(p, o)

ParseSpec == ParseInit /\ [][ParseNext]_vars

----------------------------------------------------------------------------
(* transcript-formatter.ts.  A string is a sequence of one-character strings;
   the fixed pieces of an output ("WEBVTT", " --> ") are written as one
   element each, a line break always as an element of its own. *)

\* A JavaScript value: a string, a number (here of whole seconds) or undefined
JsString(s) == [type |-> "string", str |-> s, num |-> 0]
JsNumber(n) == [type |-> "number", str |-> << >>, num |-> n]
JsUndefined == [type |-> "undefined", str |-> << >>, num |-> 0]

\* The list a resolve call returned, as the values formatTranscript is given
transcriptOf(segments) ==
  [i \in 1..Len(segments) |->
     [text |-> JsString(segments[i].text),
      offset |-> JsNumber(segments[i].offset),
      duration |-> JsNumber(segments[i].duration)]]

UpperCaseLetters ==
  << "A", "B", "C", "D", "E", "F", "G", "H", "I", "J", "K", "L", "M",
     "N", "O", "P", "Q", "R", "S", "T", "U", "V", "W", "X", "Y", "Z" >>
LowerCaseLetters ==
  << "a", "b", "c", "d", "e", "f", "g", "h", "i", "j", "k", "l", "m",
     "n", "o", "p", "q", "r", "s", "t", "u", "v", "w", "x", "y", "z" >>

\* String.prototype.toLowerCase
toLowerCase(s) ==
  [i \in 1..Len(s) |->
     IF \E k \in 1..Len(UpperCaseLetters) : UpperCaseLetters[k] = s[i]
       THEN LowerCaseLetters[CHOOSE k \in 1..Len(UpperCaseLetters) :
                               UpperCaseLetters[k] = s[i]]
       ELSE s[i]]

DigitChars == << "0", "1", "2", "3", "4", "5", "6", "7", "8", "9" >>

\* Number.prototype.toString of a whole number that is not negative
RECURSIVE toString(_)
toString(n) ==
  IF n < 10 THEN << DigitChars[n + 1] >>
  ELSE toString(n \div 10) \o << DigitChars[(n % 10) + 1] >>

\* String.prototype.padStart
RECURSIVE padStart(_, _, _)
padStart(s, targetLength, padString) ==
  IF Len(s) >= targetLength THEN s
  ELSE padStart(<< padString >> \o s, targetLength, padString)

\* Array.prototype.join
RECURSIVE Join(_, _)
Join(strings, separator) ==
  IF strings = << >> THEN << >>
  ELSE IF Len(strings) = 1 THEN strings[1]
  ELSE strings[1] \o separator \o Join(Tail(strings), separator)

\* String.prototype.replace with a global pattern of one character
RECURSIVE replaceAll(_, _, _)
replaceAll(s, from, to) ==
  IF s = << >> THEN << >>
  ELSE (IF Head(s) = from THEN to ELSE << Head(s) >>)
         \o replaceAll(Tail(s), from, to)

\* A number of seconds that is not negative, as the double it is: its whole
\* part, and its fraction in 41 binary places, fracHi * 2^21 + fracLo of
\* them.  A double from 2^11 up to 2^12 has 52 - 11 = 41 places after the
\* point; a whole number has the fraction 0.
Whole(n) == [whole |-> n, fracHi |-> 0, fracLo |-> 0]

\* The number a decimal literal whole.thousandths is read as, for a whole
\* part from 2^11 up to 2^12: the double nearest to it (no literal of
\* thousandths lies halfway between two doubles)
Literal(whole, thousandths) ==
  LET hi == (thousandths * 2^20) \div 1000
      rest == thousandths * 2^20 - 1000 * hi
      lo == (rest * 2^21 + 500) \div 1000
  IN IF lo < 2^21 THEN [whole |-> whole, fracHi |-> hi, fracLo |-> lo]
     ELSE IF hi + 1 < 2^20
       THEN [whole |-> whole, fracHi |-> hi + 1, fracLo |-> 0]
     ELSE Whole(whole + 1)

\* Variant: the hours start again at 24.
formatTime_wrapped(seconds, vtt) ==
  LET hours == (seconds.whole \div 3600) % 24
      minutes == (seconds.whole % 3600) \div 60
      secs == seconds.whole % 60
      ms == (1000 * seconds.fracHi + (1000 * seconds.fracLo) \div 2^21)
              \div 2^20
  IN padStart(toString(hours), 2, "0") \o << ":" >>
       \o padStart(toString(minutes), 2, "0") \o << ":" >>
       \o padStart(toString(secs), 2, "0")
       \o (IF vtt THEN << "." >> ELSE << "," >>)
       \o padStart(toString(ms), 3, "0")

\* Lines 80-90.  The remainders seconds % 3600, seconds % 60 and seconds % 1
\* of a double are exact, and the floor of a quotient or of a remainder with
\* a fraction is that of its whole part.  seconds % 1 is the fraction f / 2^41;
\* its product with 1000 is below 2^51 / 2^41 and so is a double without
\* rounding; ms is the floor of 1000 * f / 2^41.
formatTime(seconds, vtt) ==
  LET hours == seconds.whole \div 3600
      minutes == (seconds.whole % 3600) \div 60
      secs == seconds.whole % 60
      ms == (1000 * seconds.fracHi + (1000 * seconds.fracLo) \div 2^21)
              \div 2^20
  IN padStart(toString(hours), 2, "0") \o << ":" >>
       \o padStart(toString(minutes), 2, "0") \o << ":" >>
       \o padStart(toString(secs), 2, "0")
       \o (IF vtt THEN << "." >> ELSE << "," >>)
       \o padStart(toString(ms), 3, "0")

\* Lines 39-41
formatAsTxt(transcript) ==
  Join([i \in 1..Len(transcript) |-> Trim(transcript[i].text.str)],
       << "\n", "\n" >>)

\* Variant: a line break of the text is written as a space.
jsonString_flattened(s) ==
  << "\"" >>
    \o replaceAll(replaceAll(replaceAll(s, "\\", << "\\", "\\" >>),
                             "\"", << "\\", "\"" >>),
                  "\n", << " " >>)
    \o << "\"" >>

\* JSON.stringify of a string: quotes, with ", \, line breaks and tabs
\* escaped
jsonString(s) ==
  << "\"" >>
    \o replaceAll(replaceAll(replaceAll(replaceAll(
                     s, "\\", << "\\", "\\" >>),
                     "\"", << "\\", "\"" >>),
                     "\n", << "\\", "n" >>),
                  "\t", << "\\", "t" >>)
    \o << "\"" >>

\* Lines 43-45: JSON.stringify(transcript, null, 2)
formatAsJson(transcript) ==
  << "[", "\n" >>
    \o Join([i \in 1..Len(transcript) |->
               << "  ", "{", "\n", "    ", "\"text\": " >>
                 \o jsonString(transcript[i].text.str)
                 \o << ",", "\n", "    ", "\"offset\": " >>
                 \o toString(transcript[i].offset.num)
                 \o << ",", "\n", "    ", "\"duration\": " >>
                 \o toString(transcript[i].duration.num)
                 \o << "\n", "  ", "}" >>],
            << ",", "\n" >>)
    \o << "\n", "]" >>

\* Variant: a double quote of the text is written once.
formatAsCsv_plainQuotes(transcript) ==
  LET headers == << "Start Time,Duration,Text", "\n" >>
      rows == [i \in 1..Len(transcript) |->
        LET startTime == formatTime(Whole(transcript[i].offset.num), FALSE)
            duration == formatTime(Whole(transcript[i].duration.num), FALSE)
            text == Trim(replaceAll(transcript[i].text.str, "\n", << " " >>))
        IN startTime \o << "," >> \o duration \o << ",", "\"" >>
             \o text \o << "\"" >>]
  IN headers \o Join(rows, << "\n" >>)

\* Lines 47-56
formatAsCsv(transcript) ==
  LET headers == << "Start Time,Duration,Text", "\n" >>
      rows == [i \in 1..Len(transcript) |->
        LET startTime == formatTime(Whole(transcript[i].offset.num), FALSE)
            duration == formatTime(Whole(transcript[i].duration.num), FALSE)
            text == Trim(replaceAll(replaceAll(transcript[i].text.str,
                                               "\"", << "\"", "\"" >>),
                                    "\n", << " " >>))
        IN startTime \o << "," >> \o duration \o << ",", "\"" >>
             \o text \o << "\"" >>]
  IN headers \o Join(rows, << "\n" >>)

\* Variant: the blocks are numbered from 0.
formatAsSrt_fromZero(transcript) ==
  Join([i \in 1..Len(transcript) |->
          LET startTime == formatTime(Whole(transcript[i].offset.num), FALSE)
              endTime == formatTime(Whole(transcript[i].offset.num
                                      + transcript[i].duration.num), FALSE)
              text == Trim(transcript[i].text.str)
          IN toString(i - 1) \o << "\n" >> \o startTime \o << " --> " >>
               \o endTime \o << "\n" >> \o text \o << "\n" >>],
       << "\n" >>)

\* Lines 58-67
formatAsSrt(transcript) ==
  Join([i \in 1..Len(transcript) |->
          LET startTime == formatTime(Whole(transcript[i].offset.num), FALSE)
              endTime == formatTime(Whole(transcript[i].offset.num
                                      + transcript[i].duration.num), FALSE)
              text == Trim(transcript[i].text.str)
          IN toString(i) \o << "\n" >> \o startTime \o << " --> " >>
               \o endTime \o << "\n" >> \o text \o << "\n" >>],
       << "\n" >>)

\* Variant: the end of a cue is the duration of its segment.
formatAsVtt_durationEnd(transcript) ==
  LET header == << "WEBVTT", "\n", "\n" >>
      cues == [i \in 1..Len(transcript) |->
        LET startTime == formatTime(Whole(transcript[i].offset.num), TRUE)
            endTime == formatTime(Whole(transcript[i].duration.num), TRUE)
            text == Trim(transcript[i].text.str)
        IN startTime \o << " --> " >> \o endTime \o << "\n" >> \o text]
  IN header \o Join(cues, << "\n", "\n" >>)

\* Lines 69-78
formatAsVtt(transcript) ==
  LET header == << "WEBVTT", "\n", "\n" >>
      cues == [i \in 1..Len(transcript) |->
        LET startTime == formatTime(Whole(transcript[i].offset.num), TRUE)
            endTime == formatTime(Whole(transcript[i].offset.num
                                    + transcript[i].duration.num), TRUE)
            text == Trim(transcript[i].text.str)
        IN startTime \o << " --> " >> \o endTime \o << "\n" >> \o text]
  IN header \o Join(cues, << "\n", "\n" >>)

\* Lines 12-20: what the check of one segment throws (nothing: << >>);
\* index is the position of the segment, from 0
segmentError(segment, index) ==
  IF segment.text.type # "string" \/ segment.text.str = << >>
    THEN << "Invalid text in segment " >> \o toString(index)
  ELSE IF segment.duration.type # "number" \/ segment.duration.num < 0
    THEN << "Invalid duration in segment " >> \o toString(index)
  ELSE IF segment.offset.type # "number" \/ segment.offset.num < 0
    THEN << "Invalid offset in segment " >> \o toString(index)
  ELSE << >>

\* Lines 7-21: what the checks throw: that of the first segment, in the
\* order of the list, that fails one
validationError(transcript) ==
  IF Len(transcript) = 0 THEN << "Empty transcript provided" >>
  ELSE IF \A i \in 1..Len(transcript) :
            segmentError(transcript[i], i - 1) = << >>
    THEN << >>
  ELSE LET first == CHOOSE i \in 1..Len(transcript) :
                      /\ segmentError(transcript[i], i - 1) # << >>
                      /\ \A j \in 1..(i - 1) :
                           segmentError(transcript[j], j - 1) = << >>
       IN segmentError(transcript[first], first - 1)

\* Variant: the format is compared as it is written.
formatSwitch_caseSensitive(transcript, format) ==
  LET name == format
  IN IF name = << "t", "x", "t" >> THEN formatAsTxt(transcript)
     ELSE IF name = << "j", "s", "o", "n" >> THEN formatAsJson(transcript)
     ELSE IF name = << "c", "s", "v" >> THEN formatAsCsv(transcript)
     ELSE IF name = << "s", "r", "t" >> THEN formatAsSrt(transcript)
     ELSE IF name = << "v", "t", "t" >> THEN formatAsVtt(transcript)
     ELSE formatAsTxt(transcript)

\* Lines 23-36: the switch on the lower-cased format
formatSwitch(transcript, format) ==
  LET name == toLowerCase(format)
  IN IF name = << "t", "x", "t" >> THEN formatAsTxt(transcript)
     ELSE IF name = << "j", "s", "o", "n" >> THEN formatAsJson(transcript)
     ELSE IF name = << "c", "s", "v" >> THEN formatAsCsv(transcript)
     ELSE IF name = << "s", "r", "t" >> THEN formatAsSrt(transcript)
     ELSE IF name = << "v", "t", "t" >> THEN formatAsVtt(transcript)
     ELSE formatAsTxt(transcript)

\* What a formatTranscript call came to
RenderThrew(message) == [threw |-> TRUE, message |-> message, output |-> << >>]
RenderReturned(output) == [threw |-> FALSE, message |-> << >>, output |-> output]

\* Variant: a format that is not recognised is rendered as text without the
\* checks.
formatTranscript_switchFirst(transcript, format) ==
  IF toLowerCase(format) \notin
       { << "t", "x", "t" >>, << "j", "s", "o", "n" >>, << "c", "s", "v" >>,
         << "s", "r", "t" >>, << "v", "t", "t" >> }
    THEN RenderReturned(Join([i \in 1..Len(transcript) |->
                                Trim(transcript[i].text.str)],
                             << "\n", "\n" >>))
  ELSE IF validationError(transcript) # << >>
    THEN RenderThrew(validationError(transcript))
  ELSE RenderReturned(formatSwitch(transcript, format))

\* Lines 3-37
formatTranscript(transcript, format) ==
  IF validationError(transcript) # << >>
    THEN RenderThrew(validationError(transcript))
  ELSE RenderReturned(formatSwitch(transcript, format))

\* The format strings formatTranscript is called with
Formats ==
  { << "t", "x", "t" >>, << "j", "s", "o", "n" >>, << "c", "s", "v" >>,
    << "s", "r", "t" >>, << "v", "t", "t" >>, << "S", "R", "T" >>,
    << "T", "x", "t" >>, << "J", "S", "O", "N" >>, << "c", "S", "v" >>,
    << "V", "T", "T" >>, << "x", "m", "l" >>, << "t", "e", "x", "t" >>,
    << >> }

\* formatTranscript on its own: it is called with a list of up to
\* MaxSegments segments, well-formed or with one field that is not, and a
\* format string, and returns or throws.
GoodSegment == [text |-> JsString(Str1), offset |-> JsNumber(0),
                duration |-> JsNumber(2)]
RenderSegments ==
  { GoodSegment,
    [text |-> JsString(<< " ", "a", "\"", "b", "\n", "c" >>),
     offset |-> JsNumber(3599), duration |-> JsNumber(62)],
    [text |-> JsString(<< "\\", "n", "\t", "\n", "\\", "\"" >>),
     offset |-> JsNumber(10), duration |-> JsNumber(0)],
    [GoodSegment EXCEPT !.text = JsString(Blank)],
    [GoodSegment EXCEPT !.text = JsString(<< >>)],
    [GoodSegment EXCEPT !.text = JsUndefined],
    [GoodSegment EXCEPT !.text = JsNumber(5)],
    [GoodSegment EXCEPT !.duration = JsNumber(-1)],
    [GoodSegment EXCEPT !.duration = JsString(<< "2" >>)],
    [GoodSegment EXCEPT !.offset = JsNumber(-3)],
    [GoodSegment EXCEPT !.offset = JsUndefined] }
RenderTranscripts == UNION { [1..n -> RenderSegments] : n \in 0..MaxSegments }

FormatInit ==
  /\ clock = Ms(StartMs)
  /\ lastRequestTime = 0
  /\ consecutiveFailures = 0
  /\ pc = [p \in Calls |-> "idle"]
  /\ step = [p \in Calls |-> 0]
  /\ videoId = [p \in Calls |-> ValidId]
  /\ paceDelay = [p \in Calls |-> 0]
  /\ wakeAt = [p \in Calls |-> 0]
  /\ result = [p \in Calls |-> NoResult]
  /\ attempts = [p \in Calls |-> << >>]
  /\ paceCalls = [p \in Calls |-> 0]
  /\ counterWrites = [p \in Calls |-> << >>]
  /\ lastDispatch = -1
  /\ started = 0
  /\ ledger = << >>
  /\ \E t \in RenderTranscripts, f \in Formats :
       rendering = [NoRendering EXCEPT !.stage = "called", !.transcript = t,
                                       !.format = f]
  /\ timing = NoTiming
  /\ http = NoRequest
  /\ client = NoClient

\* Lines 3-37: the call runs to its end
Render ==
  /\ rendering.stage = "called"
  /\ LET outcome == formatTranscript(rendering.transcript, rendering.format)
     IN rendering' = [rendering EXCEPT !.stage = "returned",
                                       !.threw = outcome.threw,
                                       !.message = outcome.message,
                                       !.output = outcome.output]
  /\ UNCHANGED <<clock, shared, locals, history, timing, http, client>>

FormatNext == Render

FormatSpec == FormatInit /\ [][FormatNext]_vars

\* formatTime on its own: it is called with a whole number of seconds, of
\* hours up to MaxHours, minutes and seconds, or with a decimal literal of
\* thousandths, and with either separator.
ProbeHours == { 0, 1, 23, 24, 25, 99, 100, MaxHours }
ProbeSixtieths == { 0, 1, 9, 10, 59 }
TimeInputs ==
  { Whole(h * 3600 + m * 60 + c) :
      h \in ProbeHours, m \in ProbeSixtieths, c \in ProbeSixtieths }
    \cup { Literal(w, t) : w \in { 2048, 3661, 4095 },
                            t \in { 1, 234, 250, 500, 999 } }

TimeInit ==
  /\ clock = Ms(StartMs)
  /\ lastRequestTime = 0
  /\ consecutiveFailures = 0
  /\ pc = [p \in Calls |-> "idle"]
  /\ step = [p \in Calls |-> 0]
  /\ videoId = [p \in Calls |-> ValidId]
  /\ paceDelay = [p \in Calls |-> 0]
  /\ wakeAt = [p \in Calls |-> 0]
  /\ result = [p \in Calls |-> NoResult]
  /\ attempts = [p \in Calls |-> << >>]
  /\ paceCalls = [p \in Calls |-> 0]
  /\ counterWrites = [p \in Calls |-> << >>]
  /\ lastDispatch = -1
  /\ started = 0
  /\ ledger = << >>
  /\ rendering = NoRendering
  /\ http = NoRequest
  /\ client = NoClient
  /\ \E s \in TimeInputs, v \in BOOLEAN :
       timing = [stage |-> "called", seconds |-> s, vtt |-> v,
                 output |-> << >>]

\* Lines 80-90: the call runs to its end
FormatTime ==
  /\ timing.stage = "called"
  /\ timing' = [timing EXCEPT !.stage = "returned",
                              !.output = formatTime(timing.seconds, timing.vtt)]
  /\ UNCHANGED <<clock, shared, locals, history, rendering, http, client>>

TimeNext == FormatTime

TimeSpec == TimeInit /\ [][TimeNext]_vars

----------------------------------------------------------------------------
(* Properties *)

\* The fixed order of the attempts of a call on video id v
FixedOrder(v) ==
  << [strategy |-> "A", arg |-> << v.value >>],
     [strategy |-> "B", arg |-> << v.value >>],
     [strategy |-> "A", arg |-> << "https://www.youtube.com/watch?v=", v.value >>],
     [strategy |-> "A", arg |-> << "https://youtu.be/", v.value >>] >>

\* C1: the attempts of a call are, in this order, strategy A on the bare id,
\* strategy B on the id, strategy A on the watch URL and strategy A on the
\* youtu.be URL; an attempt is made only when every earlier attempt of the
\* call failed or returned nothing, and an attempt that returned a non-empty
\* list is the last one of its call.
C1_AttemptOrder ==
  \A p \in Calls :
    LET made == attempts[p]
    IN /\ Len(made) <= 4
       /\ \A i \in 1..Len(made) :
            /\ made[i].strategy = FixedOrder(videoId[p])[i].strategy
            /\ made[i].arg = FixedOrder(videoId[p])[i].arg
            /\ i < Len(made) => made[i].outcome = "failed"
            /\ made[i].outcome = "nonempty" => i = Len(made) /\ pc[p] = "done"

\* A call succeeded on its fourth attempt.
C1_Witness ==
  \E p \in Calls : Len(attempts[p]) = 4 /\ attempts[p][4].outcome = "nonempty"

PermanentText(message) ==
  \/ includes(message, "Transcript is disabled")
  \/ includes(message, "Video unavailable")
  \/ includes(message, "private")

\* C2: when the first strategy A attempt of a call raises an error whose
\* message contains "Transcript is disabled", "Video unavailable" or
\* "private", the call ends at once with an error, having made one attempt
\* and one pace call, and makes no attempt and no pace call afterwards.
C2_EarlyExit ==
  [][\A p \in Calls :
       /\ (/\ pc[p] = "fetching"
           /\ step[p] = 0
           /\ \E o \in AOutcomes :
                /\ o.kind = "throw"
                /\ PermanentText(o.message)
                /\ FirstAttemptSettles(p, o))
            => /\ pc'[p] = "done"
               /\ result'[p].kind = "throw"
               /\ Len(attempts'[p]) = 1
               /\ attempts'[p][1].strategy = "A"
               /\ paceCalls'[p] = 1
       /\ pc[p] = "done"
            => /\ Len(attempts'[p]) <= Len(attempts[p])
               /\ paceCalls'[p] <= paceCalls[p]
    ]_vars

\* A call ended with the "private" error after one attempt.
C2_Witness ==
  \E p \in Calls :
    /\ pc[p] = "done"
    /\ result[p].message = << "Video is private or restricted" >>
    /\ Len(attempts[p]) = 1
    /\ paceCalls[p] = 1

\* C3: when the last attempt of a call fails and every earlier one has
\* failed, the call ends with the fixed diagnostic message, which names the
\* video id, and that step, the only write of the call to the counter,
\* raises consecutiveFailures by exactly 1.
C3_Exhausted ==
  [][\A p \in Calls :
       (/\ pc[p] = "fetching"
        /\ pc'[p] = "done"
        /\ Len(attempts'[p]) = 4
        /\ \A i \in 1..4 : attempts'[p][i].outcome = "failed")
         => /\ result'[p].kind = "throw"
            /\ result'[p].message = NotFoundMessage(videoId[p])
            /\ result'[p].message[1] = "No transcript available for video "
            /\ result'[p].message[2] = videoId[p].value
            /\ consecutiveFailures' = consecutiveFailures + 1
            /\ counterWrites[p] = << >>
            /\ counterWrites'[p] = << "inc" >>
    ]_vars

\* A call ran out of attempts.
C3_Witness ==
  \E p \in Calls :
    /\ pc[p] = "done"
    /\ Len(attempts[p]) = 4
    /\ \A i \in 1..4 : attempts[p][i].outcome = "failed"
    /\ counterWrites[p] = << "inc" >>
    /\ consecutiveFailures >= 1

\* C4: consecutiveFailures is an integer >= 0 in every reachable state.
C4_CounterNonNegative == consecutiveFailures \in Nat

\* The first call of the process succeeded: the counter was 0 when it was
\* decremented.
C4_Witness ==
  /\ started = 1
  /\ consecutiveFailures = 0
  /\ \E p \in Calls :
       /\ pc[p] = "done"
       /\ result[p].kind = "return"
       /\ counterWrites[p] = << "dec" >>

\* C5: a call whose videoId is empty or not a string ends at once with
\* "Invalid video ID provided", without a pace call or an attempt, and
\* leaves lastRequestTime and consecutiveFailures as they were.
C5_InvalidId ==
  [][\A p \in Calls :
       /\ \A v \in VideoIdInputs :
            ((v.type # "string" \/ v.value = "") /\ Invoke(p, v))
              => /\ pc'[p] = "done"
                 /\ result'[p].kind = "throw"
                 /\ result'[p].message = << "Invalid video ID provided" >>
                 /\ paceCalls'[p] = 0
                 /\ attempts'[p] = << >>
                 /\ counterWrites'[p] = << >>
                 /\ lastRequestTime' = lastRequestTime
                 /\ consecutiveFailures' = consecutiveFailures
       /\ (/\ pc[p] = "done"
           /\ result[p].message = << "Invalid video ID provided" >>
           /\ pc'[p] # "done")
            => /\ lastRequestTime' = lastRequestTime
               /\ consecutiveFailures' = consecutiveFailures
               /\ paceCalls[p] = 0
               /\ attempts[p] = << >>
    ]_vars

\* A call on the empty string was refused.
C5_Witness ==
  \E p \in Calls :
    /\ pc[p] = "done"
    /\ videoId[p] = [type |-> "string", value |-> ""]
    /\ result[p].message = << "Invalid video ID provided" >>
    /\ paceCalls[p] = 0

\* C6: the step by which a call succeeds, whichever attempt produced the
\* result, sets consecutiveFailures to max(0, c - 1), c being its value at
\* that moment; it is the only write of the call to the counter, a
\* decrement; it returns a non-empty list and changes nothing else that is
\* shared (lastRequestTime, the other calls).
C6_Success ==
  [][\A p \in Calls :
       (pc[p] = "fetching" /\ pc'[p] = "done" /\ result'[p].kind = "return")
         => /\ consecutiveFailures' =
                 (IF consecutiveFailures > 0 THEN consecutiveFailures - 1 ELSE 0)
            /\ counterWrites[p] = << >>
            /\ counterWrites'[p] = << "dec" >>
            /\ Len(result'[p].value) > 0
            /\ lastRequestTime' = lastRequestTime
            /\ paceCalls'[p] = paceCalls[p]
            /\ Len(attempts'[p]) = Len(attempts[p])
            /\ \A q \in Calls \ {p} :
                 /\ pc'[q] = pc[q]
                 /\ result'[q] = result[q]
                 /\ attempts'[q] = attempts[q]
                 /\ counterWrites'[q] = counterWrites[q]
    ]_vars

\* A call succeeded through strategy B after another call had run out of
\* attempts.
C6_Witness ==
  \E p \in Calls :
    /\ pc[p] = "done"
    /\ result[p].kind = "return"
    /\ Len(attempts[p]) = 2
    /\ counterWrites[p] = << "dec" >>
    /\ \E q \in Calls \ {p} : counterWrites[q] = << "inc" >>

\* C7: an attempt is dispatched only by a call whose pace call has just
\* completed, one pace call per attempt: the number of pace calls of a call
\* is the number of its attempts, plus one while a pace call is waiting or
\* has completed and its attempt is not dispatched yet.
C7_PaceBeforeAttempt ==
  [][\A p \in Calls :
       /\ Len(attempts'[p]) = Len(attempts[p]) + 1
            => pc[p] = "paced" /\ paceCalls[p] = Len(attempts'[p])
       /\ paceCalls'[p] =
            Len(attempts'[p]) + (IF pc'[p] \in {"waiting", "paced"} THEN 1 ELSE 0)
       /\ pc'[p] = "done" => paceCalls'[p] = Len(attempts'[p])
    ]_vars

\* A call is in its third attempt, after three pace calls.
C7_Witness ==
  \E p \in Calls :
    pc[p] = "fetching" /\ Len(attempts[p]) = 3 /\ paceCalls[p] = 3

\* The call ended because its attempts ran out.
RanOut(p) ==
  /\ pc[p] = "done"
  /\ result[p].kind = "throw"
  /\ result[p].message = NotFoundMessage(videoId[p])

StrategyACount(p) ==
  Cardinality({i \in 1..Len(attempts[p]) : attempts[p][i].strategy = "A"})

\* C8 as stated: a call in which every attempt fails makes five attempts,
\* three of them by strategy A, and five pace calls.
C8_FiveAttempts ==
  \A p \in Calls :
    RanOut(p) =>
      Len(attempts[p]) = 5 /\ StrategyACount(p) = 3 /\ paceCalls[p] = 5

\* C8, amended: a call in which every attempt fails makes four attempts,
\* three of them by strategy A, and four pace calls.
C8_FourAttempts ==
  \A p \in Calls :
    RanOut(p) =>
      Len(attempts[p]) = 4 /\ StrategyACount(p) = 3 /\ paceCalls[p] = 4

\* A call ended because its attempts ran out.
C8_Witness == \E p \in Calls : RanOut(p) /\ paceCalls[p] > 0

\* C9: a pace call computes dynamicDelay from the counter; when the time
\* since lastRequestTime is below it, the call sets a timer for exactly the
\* difference and leaves lastRequestTime alone until the timer has fired;
\* otherwise it does not wait.  When the pace call returns, lastRequestTime
\* is the current time.  With calls one at a time, an attempt is dispatched
\* at least the dynamicDelay of its pace call after the attempt before it.
C9_Pacing ==
  [][\A p \in Calls :
       /\ paceCalls'[p] = paceCalls[p] + 1
            => LET elapsed == clock - lastRequestTime
                   delay == paceDelay'[p]
               IN /\ delay = dynamicDelay(consecutiveFailures)
                  /\ IF elapsed < delay
                       THEN /\ pc'[p] = "waiting"
                            /\ wakeAt'[p] - clock = delay - elapsed
                            /\ lastRequestTime' = lastRequestTime
                       ELSE /\ pc'[p] = "paced"
                            /\ lastRequestTime' = clock'
       /\ (pc[p] = "waiting" /\ pc'[p] = "paced")
            => clock >= wakeAt[p] /\ lastRequestTime' = clock'
       /\ (Len(attempts'[p]) = Len(attempts[p]) + 1 /\ lastDispatch >= 0)
            => clock - lastDispatch >= paceDelay[p]
    ]_vars

\* A pace call whose delay is no whole number of milliseconds (the counter
\* is 3 or more) has waited, and returns at the first whole millisecond
\* that is its delay or more after the attempt before it.
C9_Witness ==
  \E p \in Calls :
    /\ pc[p] = "paced"
    /\ paceDelay[p] % TicksPerMs # 0
    /\ lastDispatch >= 0
    /\ lastRequestTime = clock
    /\ clock - lastDispatch >= paceDelay[p]
    /\ clock - lastDispatch < paceDelay[p] + TicksPerMs

\* C10: the delay of a pace call is min(5000, 500 * 1.5^c) ms, c being the
\* counter: 500 at 0, never below 500 nor above 5000, 5000 from 6 on, and
\* not decreasing in c.
C10_Delay ==
  \A p \in Calls :
    pc[p] \in {"waiting", "paced"} =>
      LET c == consecutiveFailures
          delay == paceDelay[p]
      IN /\ c = 0 => delay = 500 * TicksPerMs
         /\ delay >= 500 * TicksPerMs
         /\ delay <= 5000 * TicksPerMs
         /\ c >= 6 => delay = 5000 * TicksPerMs
         /\ c <= 5 => delay * 2^c = 500 * TicksPerMs * 3^c
         /\ delay <= dynamicDelay(c + 1)
         /\ c > 0 => dynamicDelay(c - 1) <= delay

\* A pace call computed the capped delay.
C10_Witness ==
  /\ consecutiveFailures >= 6
  /\ \E p \in Calls : pc[p] = "waiting" /\ paceDelay[p] = 5000 * TicksPerMs

\* C11: two calls in flight at once are not kept apart. A pace that starts
\* computes its wait from lastRequestTime alone, whatever other call is
\* waiting, and a pace that returns leaves every other waiting call's timer as
\* it was: no call waits for another. So two calls that read the same
\* lastRequestTime both return when that one delay has passed, and their
\* strategy calls are made less than the delay apart (C11_Witness).
C11_NoMutualExclusion ==
  [][\A p \in Calls : \A q \in Calls \ {p} :
       /\ (pc[p] = "waiting" /\ pc'[p] = "paced" /\ pc[q] = "waiting")
            => /\ pc'[q] = "waiting" /\ wakeAt'[q] = wakeAt[q]
               /\ clock' = clock
       /\ (pc[p] # "waiting" /\ pc'[p] = "waiting" /\ pc[q] = "waiting")
            => /\ wakeAt'[p] = lastRequestTime + paceDelay'[p]
               /\ wakeAt'[q] = wakeAt[q]]_vars

\* Both calls wait on the same reading of lastRequestTime, which is still the
\* value of the variable; both timers are due, so that both paces return now
\* and both strategy calls are made at this time, 0 ms apart.
C11_Witness ==
  \E p \in Calls : \E q \in Calls \ {p} :
    /\ pc[p] = "waiting" /\ pc[q] = "waiting"
    /\ paceDelay[p] >= Ms(baseDelay) /\ paceDelay[q] >= Ms(baseDelay)
    /\ wakeAt[p] - paceDelay[p] = lastRequestTime
    /\ wakeAt[q] - paceDelay[q] = lastRequestTime
    /\ clock >= wakeAt[p] /\ clock >= wakeAt[q]
    /\ ENABLED TimerFires(p) /\ ENABLED TimerFires(q)

\* C12: a step of smartRateLimit (its start, or its return when the timer
\* fires) leaves consecutiveFailures as it was; the counter changes only when
\* the resolver settles a call (a success or the exhaustion of the attempts);
\* lastRequestTime changes only when a pace returns, and then to the time it
\* is; the clock never goes back, and so lastRequestTime never decreases.
C12_Frame ==
  [][/\ \A p \in Calls :
          (\/ paceCalls'[p] = paceCalls[p] + 1
           \/ (pc[p] = "waiting" /\ pc'[p] = "paced"))
            => consecutiveFailures' = consecutiveFailures
     /\ consecutiveFailures' # consecutiveFailures
          => \E p \in Calls :
               /\ pc[p] = "fetching" /\ pc'[p] = "done"
               /\ Len(counterWrites'[p]) = Len(counterWrites[p]) + 1
     /\ lastRequestTime' # lastRequestTime
          => /\ lastRequestTime' = clock
             /\ \E p \in Calls : pc[p] # "paced" /\ pc'[p] = "paced"
     /\ clock' >= clock
     /\ lastRequestTime' >= lastRequestTime]_vars

\* The pace of a later attempt has just returned and written the time,
\* after an exhausted call had raised the counter.
C12_Witness ==
  \E p \in Calls :
    /\ pc[p] = "paced" /\ paceDelay[p] >= Ms(baseDelay) /\ paceCalls[p] >= 2
    /\ lastRequestTime = clock
    /\ consecutiveFailures >= 1

\* C13: every segment of a list that a resolve call returns has an offset of
\* at least 0 and a duration of at least 0, whichever attempt produced it.
C13_NonNegative ==
  \A p \in Calls :
    result[p].kind = "return"
      => \A i \in 1..Len(result[p].value) :
           /\ result[p].value[i].offset >= 0
           /\ result[p].value[i].duration >= 0

\* C14: whatever list a resolve call returns, formatTranscript accepts it,
\* in every format: its checks of the segments never throw.
C14_RenderAccepts ==
  \A p \in Calls :
    result[p].kind = "return"
      => \A f \in Formats :
           ~formatTranscript(transcriptOf(result[p].value), f).threw

\* The number a string of decimal digits stands for, read from the left
RECURSIVE DecimalFrom(_, _)
DecimalFrom(digits, sofar) ==
  IF digits = << >> THEN sofar
  ELSE DecimalFrom(Tail(digits),
         10 * sofar + (CHOOSE d \in 0..9 : DigitChars[d + 1] = Head(digits)))

\* The entries of a segment list that are caption segments with a text
\* that is not empty once trimmed
CaptionEntries(items) ==
  SelectSeq(items, LAMBDA e :
    /\ e.type = "TranscriptSegment"
    /\ \/ \E i \in 1..Len(e.text) : ~IsSpace(e.text[i])
       \/ /\ e.text = << >>
          /\ e.hasRuns
          /\ \E r \in 1..Len(e.runs) :
               \E i \in 1..Len(e.runs[r]) : ~IsSpace(e.runs[r][i]))

\* C15: when the first strategy A attempt has failed and strategy B answers
\* with a segment list that holds caption segments with text, the call
\* returns one segment for each of them, in order; the segment of an entry
\* with start_ms and end_ms has offset floor(start_ms / 1000) and duration
\* floor((end_ms - start_ms) / 1000).  The entry of 1000 ms to 3000 ms alone
\* gives one segment of offset 1 and duration 2.
C15_StrategyB ==
  [][\A p \in Calls :
      (pc[p] = "fetching" /\ step[p] = 1 /\ pc'[p] # "fetching") =>
      \A o \in BOutcomes :
       LET entries == CaptionEntries(transcriptContent(o.response))
       IN (/\ o.kind = "return"
           /\ o.response.kind # "null"
           /\ Len(entries) > 0
           /\ StrategyBSettles(p, o))
            => /\ result'[p].kind = "return"
               /\ Len(result'[p].value) = Len(entries)
               /\ \A i \in 1..Len(entries) :
                    (entries[i].start_ms # << >> /\ entries[i].end_ms # << >>)
                      => LET start == DecimalFrom(entries[i].start_ms, 0)
                             end == DecimalFrom(entries[i].end_ms, 0)
                             segment == result'[p].value[i]
                         IN /\ segment.offset * 1000 <= start
                            /\ start < (segment.offset + 1) * 1000
                            /\ segment.duration * 1000 <= end - start
                            /\ end - start < (segment.duration + 1) * 1000
               /\ (entries = << EntryOneToThree >>)
                    => /\ result'[p].value[1].offset = 1
                       /\ result'[p].value[1].duration = 2]_vars

\* The call has returned the one segment of offset 1 and duration 2 that
\* strategy B made of the entry of 1000 ms to 3000 ms, after strategy A failed.
C15_Witness ==
  \E p \in Calls :
    /\ result[p] = Returned(<< [text |-> Str1, offset |-> 1, duration |-> 2] >>)
    /\ Len(attempts[p]) = 2
    /\ attempts[p][1].outcome = "failed"
    /\ attempts[p][2].strategy = "B"
    /\ attempts[p][2].outcome = "nonempty"

\* The four places of a strategy B answer, in the order they are looked at
Places(r) ==
  << r.bodyContent, r.initialSegments, r.content,
     [isArray |-> r.kind = "array", items |-> r.self] >>

\* C16: the segment list of strategy B is that of the first place, in the
\* order body.content, transcript.content.body.initial_segments, content,
\* the answer itself, that holds an array; when no place holds an array that
\* is not empty, the attempt has failed.  Of the list, the entries of type
\* TranscriptSegment with a text (snippet.text, or else the run texts put
\* together) that is not empty once trimmed are kept, in order, and no other.
C16_SegmentList ==
  [][\A p \in Calls :
      (pc[p] = "fetching" /\ step[p] = 1 /\ pc'[p] # "fetching") =>
      \A o \in ParseOutcomes :
       (o.kind = "return" /\ o.response.kind # "null" /\ StrategyBSettles(p, o))
         => LET places == Places(o.response)
                holders == { k \in 1..4 : places[k].isArray }
                chosen == IF holders = { } THEN << >>
                          ELSE places[CHOOSE k \in holders :
                                        \A j \in holders : k <= j].items
                kept == CaptionEntries(chosen)
                failed == pc'[p] # "done" /\ step'[p] = 2
                          /\ result'[p] = NoResult
            IN /\ (\A k \in 1..4 : ~places[k].isArray \/ places[k].items = << >>)
                    => failed
               /\ kept = << >> => failed
               /\ kept # << >>
                    => /\ result'[p].kind = "return"
                       /\ Len(result'[p].value) = Len(kept)
                       /\ \A i \in 1..Len(kept) :
                            result'[p].value[i].text =
                              Trim(IF kept[i].text # << >> THEN kept[i].text
                                   ELSE Concat(kept[i].runs))]_vars

\* Strategy B has answered with a list of two caption entries, the first with
\* its text in runs or in need of trimming, and the call has returned the two
\* segments in the order of the entries.
C16_Witness ==
  /\ result[1].kind = "return"
  /\ attempts[1][2].outcome = "nonempty"
  /\ Len(result[1].value) = 2
  /\ result[1].value[1].text = << "o", "k" >>
  /\ result[1].value[2].text = Str1

\* The call p goes on to its attempt number n (from 0): nothing is thrown to
\* its caller, the counter is as it was and the pace of that attempt begins
GoesOn(p, n) ==
  /\ step'[p] = n
  /\ pc'[p] \in {"waiting", "paced"}
  /\ paceCalls'[p] = paceCalls[p] + 1
  /\ result'[p] = NoResult
  /\ consecutiveFailures' = consecutiveFailures

\* C17: an error of the first strategy A attempt whose message holds none of
\* the three permanent texts, any error of strategy B (no transcript and an
\* answer with no segment list among them) and any error of a URL retry is
\* not thrown to the caller: the call goes on to its next attempt, or, after
\* the last one, ends with the NotFound error.
C17_Swallowed ==
  [][\A p \in Calls :
      (pc[p] = "fetching" /\ pc'[p] # "fetching") =>
       /\ \A o \in AOutcomes :
            (o.kind = "throw" /\ ~PermanentText(o.message)
               /\ FirstAttemptSettles(p, o))
              => GoesOn(p, 1)
       /\ \A o \in BOutcomes :
            ((\/ o.kind = "throw"
              \/ o.response.kind = "null"
              \/ \A k \in 1..4 : ~Places(o.response)[k].isArray)
               /\ StrategyBSettles(p, o))
              => GoesOn(p, 2)
       /\ \A o \in AOutcomes :
            (o.kind = "throw" /\ UrlAttemptSettles(p, o))
              => IF step[p] = 2 THEN GoesOn(p, 3)
                 ELSE /\ pc'[p] = "done"
                      /\ result'[p] = Thrown(NotFoundMessage(videoId[p]))
                      /\ result'[p].message # o.message]_vars

\* Strategy B has failed, nothing was thrown, and the call is waiting for the
\* answer of its third attempt.
C17_Witness ==
  \E p \in Calls :
    /\ pc[p] = "fetching" /\ step[p] = 2
    /\ Len(attempts[p]) = 3
    /\ attempts[p][2].strategy = "B" /\ attempts[p][2].outcome = "failed"
    /\ attempts[p][3].outcome = "pending"
    /\ result[p] = NoResult

\* C18: the message of the early exit is that of the first text found in the
\* error of the first strategy A attempt, the texts being looked for as they
\* are written, capitals included, in the order "Transcript is disabled",
\* "Video unavailable", "private"; an error that holds several of the texts
\* gets the message of the earliest in this order, and an error that holds
\* none, or holds one in other capitals only, ends nothing.
C18_MessageOrder ==
  [][\A p \in Calls :
      (pc[p] = "fetching" /\ step[p] = 0 /\ pc'[p] # "fetching") =>
      \A o \in AOutcomes :
       (o.kind = "throw" /\ FirstAttemptSettles(p, o))
         => LET Holds(part) == \E i \in DOMAIN o.message : o.message[i] = part
            IN IF Holds("Transcript is disabled")
                 THEN result'[p].message =
                        << "Transcripts are disabled for this video" >>
               ELSE IF Holds("Video unavailable")
                 THEN result'[p].message =
                        << "Video is unavailable or has been removed" >>
               ELSE IF Holds("private")
                 THEN result'[p].message = << "Video is private or restricted" >>
               ELSE result'[p] = NoResult /\ pc'[p] # "done"]_vars

\* A call ended at its first attempt with the message of "Video unavailable",
\* which an error that also holds "private" is given.
C18_Witness ==
  \E p \in Calls :
    /\ pc[p] = "done"
    /\ result[p] = Thrown(<< "Video is unavailable or has been removed" >>)
    /\ Len(attempts[p]) = 1
    /\ attempts[p][1].outcome = "failed"
    /\ \E m \in ErrorMessages :
         /\ includes(m, "Video unavailable") /\ includes(m, "private")
         /\ earlyExitMessage(m) = result[p].message

\* n exhausted calls and then n successful calls, and no other write
UpThenDown(writes) ==
  \E n \in 0..Len(writes) :
    /\ Len(writes) = 2 * n
    /\ \A i \in 1..n : writes[i] = "inc"
    /\ \A i \in (n + 1)..(2 * n) : writes[i] = "dec"

\* C19: with calls one at a time, the first pace of a call uses the delay of
\* the counter as the calls before left it; a call that ends with NotFound
\* leaves a delay that is not lower than before, a call that succeeds one
\* that is not higher; and after n exhausted calls from counter 0 and then n
\* successful calls, the delay is 500 ms again.
C19_Cooldown ==
  [][/\ \A p \in Calls :
          (pc[p] = "idle" /\ paceCalls'[p] = 1)
            => /\ paceDelay'[p] = dynamicDelay(consecutiveFailures)
               /\ UpThenDown(ledger) => paceDelay'[p] = Ms(500)
     /\ ledger' = Append(ledger, "inc")
          => dynamicDelay(consecutiveFailures')
               >= dynamicDelay(consecutiveFailures)
     /\ ledger' = Append(ledger, "dec")
          => dynamicDelay(consecutiveFailures')
               <= dynamicDelay(consecutiveFailures)
     /\ UpThenDown(ledger') => dynamicDelay(consecutiveFailures') = Ms(500)
    ]_vars

\* Two calls were exhausted, two succeeded, and the pace of the fifth call
\* uses 500 ms.
C19_Witness ==
  \E p \in Calls :
    /\ ledger = << "inc", "inc", "dec", "dec" >>
    /\ pc[p] \in {"waiting", "paced"}
    /\ paceCalls[p] = 1
    /\ paceDelay[p] = Ms(500)

\* A segment list that is empty, or holds a segment whose text is empty or
\* not a string, or whose duration or offset is not a number or is negative
Malformed(transcript) ==
  \/ Len(transcript) = 0
  \/ \E i \in 1..Len(transcript) :
       LET segment == transcript[i]
       IN \/ segment.text.type # "string"
          \/ segment.text.str = << >>
          \/ segment.duration.type # "number"
          \/ segment.duration.num < 0
          \/ segment.offset.type # "number"
          \/ segment.offset.num < 0

\* C20: formatTranscript called with such a list throws and gives no
\* output, whatever the format string, a format that is not recognised
\* included.
C20_Validation ==
  (rendering.stage = "returned" /\ Malformed(rendering.transcript))
    => /\ rendering.threw
       /\ rendering.message # << >>
       /\ rendering.output = << >>

\* A call with a format that is not recognised and a list whose second
\* segment has a negative duration has thrown.
C20_Witness ==
  /\ rendering.stage = "returned"
  /\ rendering.format = << "x", "m", "l" >>
  /\ Len(rendering.transcript) = 2
  /\ ~Malformed(<< rendering.transcript[1] >>)
  /\ rendering.transcript[2].duration.num < 0
  /\ rendering.threw
  /\ rendering.message = << "Invalid duration in segment ", "1" >>

\* The same name but for the case of its letters
SameName(f, g) ==
  /\ Len(f) = Len(g)
  /\ \A i \in 1..Len(f) :
       \/ f[i] = g[i]
       \/ \E k \in 1..26 :
            {f[i], g[i]} = {UpperCaseLetters[k], LowerCaseLetters[k]}

\* The five format names, in small letters
FormatNames ==
  { << "t", "x", "t" >>, << "j", "s", "o", "n" >>, << "c", "s", "v" >>,
    << "s", "r", "t" >>, << "v", "t", "t" >> }

\* The trimmed texts of the segments, in order, with a blank line between
\* one and the next
RECURSIVE TextsWithBlankLines(_)
TextsWithBlankLines(transcript) ==
  IF Len(transcript) = 1 THEN Trim(transcript[1].text.str)
  ELSE TextsWithBlankLines(SubSeq(transcript, 1, Len(transcript) - 1))
         \o << "\n", "\n" >> \o Trim(transcript[Len(transcript)].text.str)

\* C21: for a well-formed list, a format that is none of txt, json, csv, srt
\* and vtt, whatever the case of its letters, gives what "txt" gives: the
\* trimmed texts in order with a blank line between them; and a format that
\* is one of the five names gives the same output in any case of letters.
C21_FormatFallback ==
  (rendering.stage = "returned" /\ ~Malformed(rendering.transcript))
    => /\ ~rendering.threw
       /\ (\A name \in FormatNames : ~SameName(rendering.format, name))
            => /\ rendering.output
                    = formatTranscript(rendering.transcript,
                                       << "t", "x", "t" >>).output
               /\ rendering.output = TextsWithBlankLines(rendering.transcript)
       /\ \A name \in FormatNames :
            SameName(rendering.format, name)
              => rendering.output
                   = formatTranscript(rendering.transcript, name).output
       /\ SameName(rendering.format, << "t", "x", "t" >>)
            => rendering.output = TextsWithBlankLines(rendering.transcript)

\* A list of two segments was rendered in the format "xml", and in "SRT".
C21_Witness ==
  /\ rendering.stage = "returned"
  /\ Len(rendering.transcript) = 2
  /\ ~Malformed(rendering.transcript)
  /\ rendering.transcript[1] # rendering.transcript[2]
  /\ rendering.format \in { << "x", "m", "l" >>, << "S", "R", "T" >> }
  /\ rendering.output # << >>

\* JSON.parse of the text of a list of objects with string and number
\* members.  Each reader returns the value read and the place after it.
WhiteSpace == { " ", "  ", "    ", "\n", "\t" }

RECURSIVE SkipWhiteSpace(_, _)
SkipWhiteSpace(s, i) ==
  IF i <= Len(s) /\ s[i] \in WhiteSpace THEN SkipWhiteSpace(s, i + 1) ELSE i

\* The character an escape sequence stands for
Unescaped(c) ==
  IF c = "n" THEN "\n" ELSE IF c = "t" THEN "\t" ELSE c

\* The characters of a string literal, from the place after its opening
\* quote to its closing quote
RECURSIVE ReadString(_, _, _)
ReadString(s, i, read) ==
  IF s[i] = "\"" THEN [value |-> JsString(read), next |-> i + 1]
  ELSE IF s[i] = "\\"
    THEN ReadString(s, i + 2, Append(read, Unescaped(s[i + 1])))
  ELSE ReadString(s, i + 1, Append(read, s[i]))

RECURSIVE ReadNumber(_, _, _)
ReadNumber(s, i, read) ==
  IF i <= Len(s) /\ \E d \in 1..10 : DigitChars[d] = s[i]
    THEN ReadNumber(s, i + 1,
                    10 * read + (CHOOSE d \in 1..10 : DigitChars[d] = s[i]) - 1)
  ELSE [value |-> JsNumber(read), next |-> i]

ReadValue(s, i) ==
  IF s[i] = "\"" THEN ReadString(s, i + 1, << >>) ELSE ReadNumber(s, i, 0)

\* The members of an object, from the place after its opening brace; a
\* member read later replaces one of the same name
RECURSIVE ReadMembers(_, _, _)
ReadMembers(s, i, object) ==
  LET j == SkipWhiteSpace(s, i)
  IN IF s[j] = "}" THEN [value |-> object, next |-> j + 1]
     ELSE IF s[j] = "," THEN ReadMembers(s, j + 1, object)
     ELSE LET member == ReadValue(s, j + 1)
          IN ReadMembers(s, member.next,
               IF s[j] = "\"text\": "
                 THEN [object EXCEPT !.text = member.value]
               ELSE IF s[j] = "\"offset\": "
                 THEN [object EXCEPT !.offset = member.value]
               ELSE [object EXCEPT !.duration = member.value])

\* The objects of an array, from the place after its opening bracket
RECURSIVE ReadObjects(_, _, _)
ReadObjects(s, i, objects) ==
  LET j == SkipWhiteSpace(s, i)
  IN IF s[j] = "]" THEN objects
     ELSE IF s[j] = "," THEN ReadObjects(s, j + 1, objects)
     ELSE LET object == ReadMembers(s, j + 1,
                          [text |-> JsUndefined, offset |-> JsUndefined,
                           duration |-> JsUndefined])
          IN ReadObjects(s, object.next, Append(objects, object.value))

JSONparse(s) == ReadObjects(s, SkipWhiteSpace(s, 1) + 1, << >>)

\* C22: parsing the "json" output of a well-formed list gives the list back:
\* as many segments, in the same order, each with the same text, offset and
\* duration.
C22_JsonRoundTrip ==
  (/\ rendering.stage = "returned"
   /\ ~Malformed(rendering.transcript)
   /\ SameName(rendering.format, << "j", "s", "o", "n" >>))
    => LET parsed == JSONparse(rendering.output)
       IN /\ Len(parsed) = Len(rendering.transcript)
          /\ \A i \in 1..Len(parsed) :
               /\ parsed[i].text = rendering.transcript[i].text
               /\ parsed[i].offset = rendering.transcript[i].offset
               /\ parsed[i].duration = rendering.transcript[i].duration

\* A list of two segments whose texts hold a quote, a line break, a tab and
\* backslashes was written as JSON.
C22_Witness ==
  /\ rendering.stage = "returned"
  /\ rendering.format = << "j", "s", "o", "n" >>
  /\ Len(rendering.transcript) = 2
  /\ ~Malformed(rendering.transcript)
  /\ \E i \in 1..2 : \E k \in 1..Len(rendering.transcript[i].text.str) :
       rendering.transcript[i].text.str[k] = "\n"
  /\ \E i \in 1..2 : \E k \in 1..Len(rendering.transcript[i].text.str) :
       rendering.transcript[i].text.str[k] = "\\"
  /\ JSONparse(rendering.output) = rendering.transcript

\* C24: 3661.234 seconds are written "01:01:01,234", and "01:01:01.234" for
\* VTT; 0 seconds are written "00:00:00,000".
C24_TimeExample ==
  timing.stage = "returned"
    => /\ (timing.seconds = Literal(3661, 234) /\ ~timing.vtt)
            => timing.output = << "0", "1", ":", "0", "1", ":", "0", "1", ",",
                                  "2", "3", "4" >>
       /\ (timing.seconds = Literal(3661, 234) /\ timing.vtt)
            => timing.output = << "0", "1", ":", "0", "1", ":", "0", "1", ".",
                                  "2", "3", "4" >>
       /\ (timing.seconds = Whole(0) /\ ~timing.vtt)
            => timing.output = << "0", "0", ":", "0", "0", ":", "0", "0", ",",
                                  "0", "0", "0" >>

\* The parts of a written time: what stands before the first colon, between
\* the colons, after the second colon, the separator and what follows it
TimeParts(written) ==
  LET n == Len(written)
  IN [hh |-> SubSeq(written, 1, n - 10),
      colons |-> << written[n - 9], written[n - 6] >>,
      mm |-> SubSeq(written, n - 8, n - 7),
      ss |-> SubSeq(written, n - 5, n - 4),
      separator |-> written[n - 3],
      ms |-> SubSeq(written, n - 2, n)]

\* C25: a whole number s of seconds is written HH:MM:SS, a separator and
\* 000, where HH is s div 3600 in two digits or more and never starts again
\* at 24, MM is (s mod 3600) div 60 and SS is s mod 60, both in two digits
\* from 00 to 59, so that HH * 3600 + MM * 60 + SS is s; the separator is ","
\* and for VTT ".", and nothing else differs between the two.
C25_WholeSeconds ==
  (/\ timing.stage = "returned"
   /\ timing.seconds = Whole(timing.seconds.whole))
    => LET s == timing.seconds.whole
           parts == TimeParts(timing.output)
           HH == parseInt(parts.hh)
           MM == parseInt(parts.mm)
           SS == parseInt(parts.ss)
       IN /\ Len(timing.output) >= 12
          /\ parts.colons = << ":", ":" >>
          /\ parts.ms = << "0", "0", "0" >>
          /\ parts.separator = (IF timing.vtt THEN "." ELSE ",")
          /\ HH = s \div 3600
          /\ Len(parts.hh) > 2 => parts.hh[1] # "0"
          /\ MM = (s % 3600) \div 60
          /\ SS = s % 60
          /\ MM \in 0..59
          /\ SS \in 0..59
          /\ HH * 3600 + MM * 60 + SS = s
          /\ formatTime(timing.seconds, ~timing.vtt)
               = [timing.output EXCEPT ![Len(timing.output) - 3] =
                    IF timing.vtt THEN "," ELSE "."]

\* A time of a hundred hours or more, with minutes and seconds, was written.
C25_Witness ==
  /\ timing.stage = "returned"
  /\ timing.seconds = Whole(timing.seconds.whole)
  /\ timing.seconds.whole >= 100 * 3600
  /\ timing.seconds.whole % 60 = 59
  /\ (timing.seconds.whole % 3600) \div 60 = 1
  /\ Len(timing.output) = 13
  /\ timing.vtt

\* A whole number of seconds below a hundred hours as a time, written with
\* the separator given
TwoDigits(n) == << DigitChars[(n \div 10) + 1], DigitChars[(n % 10) + 1] >>
TimeText(s, separator) ==
  LET h == s \div 3600
      m == (s - 3600 * h) \div 60
      c == s - 3600 * h - 60 * m
  IN TwoDigits(h) \o << ":" >> \o TwoDigits(m) \o << ":" >> \o TwoDigits(c)
       \o << separator, "0", "0", "0" >>

\* How many elements of a sequence are the given one
RECURSIVE Count(_, _)
Count(s, e) ==
  IF s = << >> THEN 0
  ELSE (IF Head(s) = e THEN 1 ELSE 0) + Count(Tail(s), e)

\* Block i of an SRT output, and the first n blocks with an empty line
\* between one and the next
SrtBlock(transcript, i) ==
  << DigitChars[i + 1], "\n" >>
    \o TimeText(transcript[i].offset.num, ",") \o << " --> " >>
    \o TimeText(transcript[i].offset.num + transcript[i].duration.num, ",")
    \o << "\n" >> \o Trim(transcript[i].text.str) \o << "\n" >>

RECURSIVE SrtBlocks(_, _)
SrtBlocks(transcript, n) ==
  IF n = 1 THEN SrtBlock(transcript, 1)
  ELSE SrtBlocks(transcript, n - 1) \o << "\n" >> \o SrtBlock(transcript, n)

\* C23: the SRT output of a well-formed list of n segments is n blocks in
\* the order of the list; block i holds the number i (from 1, rising by 1),
\* a line with the time of the offset and the time of offset + duration, and
\* the trimmed text of segment i.
C23_SrtBlocks ==
  (/\ rendering.stage = "returned"
   /\ ~Malformed(rendering.transcript)
   /\ SameName(rendering.format, << "s", "r", "t" >>))
    => /\ rendering.output
            = SrtBlocks(rendering.transcript, Len(rendering.transcript))
       /\ Count(rendering.output, " --> ") = Len(rendering.transcript)

\* A list of two different segments, the second with a duration, was
\* written as SRT.
C23_Witness ==
  /\ rendering.stage = "returned"
  /\ rendering.format = << "s", "r", "t" >>
  /\ Len(rendering.transcript) = 2
  /\ ~Malformed(rendering.transcript)
  /\ rendering.transcript[1] # rendering.transcript[2]
  /\ rendering.transcript[2].offset.num > 0
  /\ rendering.transcript[2].duration.num > 0
  /\ Count(rendering.output, " --> ") = 2

\* The lines of a text: what stands between its line breaks
RECURSIVE Lines(_)
Lines(s) ==
  IF \A k \in 1..Len(s) : s[k] # "\n" THEN << s >>
  ELSE LET first == CHOOSE k \in 1..Len(s) :
                      s[k] = "\n" /\ \A j \in 1..(k - 1) : s[j] # "\n"
       IN << SubSeq(s, 1, first - 1) >> \o Lines(SubSeq(s, first + 1, Len(s)))

\* A text in a CSV row: each double quote twice, each line break a space
CsvText(text) ==
  IF text = << >> THEN << >>
  ELSE LET written == [k \in 1..Len(text) |->
                         IF text[k] = "\"" THEN << "\"", "\"" >>
                         ELSE IF text[k] = "\n" THEN << " " >>
                         ELSE << text[k] >>]
           flat[k \in 0..Len(text)] ==
             IF k = 0 THEN << >> ELSE flat[k - 1] \o written[k]
       IN flat[Len(text)]

\* C26: the CSV output of a well-formed list of n segments has n + 1 lines:
\* the header "Start Time,Duration,Text", then one row for each segment in
\* the order of the list, with the times of its offset and of its duration
\* and, between double quotes, its text with each double quote written
\* twice and each line break written as a space (and what is written is
\* trimmed, which changes nothing for a text that is trimmed already).
C26_CsvRows ==
  (/\ rendering.stage = "returned"
   /\ ~Malformed(rendering.transcript)
   /\ SameName(rendering.format, << "c", "s", "v" >>))
    => LET lines == Lines(rendering.output)
           n == Len(rendering.transcript)
       IN /\ Len(lines) = n + 1
          /\ lines[1] = << "Start Time,Duration,Text" >>
          /\ \A i \in 1..n :
               LET segment == rendering.transcript[i]
                   row == TimeText(segment.offset.num, ",") \o << "," >>
                            \o TimeText(segment.duration.num, ",")
                            \o << ",", "\"" >>
               IN /\ lines[i + 1]
                       = row \o Trim(CsvText(segment.text.str)) \o << "\"" >>
                  /\ Trim(segment.text.str) = segment.text.str
                       => lines[i + 1]
                            = row \o CsvText(segment.text.str) \o << "\"" >>

\* A list of two segments, one of them with a trimmed text that holds a
\* double quote and a line break, was written as CSV.
C26_Witness ==
  /\ rendering.stage = "returned"
  /\ rendering.format = << "c", "s", "v" >>
  /\ Len(rendering.transcript) = 2
  /\ ~Malformed(rendering.transcript)
  /\ \E i \in 1..2 :
       LET text == rendering.transcript[i].text.str
       IN /\ Trim(text) = text
          /\ Count(text, "\"") = 1
          /\ Count(text, "\n") = 1
  /\ Count(rendering.output, "\n") = 2

\* Cue i of a VTT output, and the first n cues with an empty line between
\* one and the next
VttCue(transcript, i) ==
  TimeText(transcript[i].offset.num, ".") \o << " --> " >>
    \o TimeText(transcript[i].offset.num + transcript[i].duration.num, ".")
    \o << "\n" >> \o Trim(transcript[i].text.str)

RECURSIVE VttCues(_, _)
VttCues(transcript, n) ==
  IF n = 1 THEN VttCue(transcript, 1)
  ELSE VttCues(transcript, n - 1) \o << "\n", "\n" >> \o VttCue(transcript, n)

\* C27: the VTT output of a well-formed list of n segments is the line
\* "WEBVTT", an empty line, and n cues in the order of the list with an empty
\* line between them; cue i holds the times of SRT block i (the offset, and
\* offset + duration) written with a point, then the trimmed text, and no
\* number.
C27_VttCues ==
  (/\ rendering.stage = "returned"
   /\ ~Malformed(rendering.transcript)
   /\ SameName(rendering.format, << "v", "t", "t" >>))
    => LET n == Len(rendering.transcript)
           srt == Lines(formatAsSrt(rendering.transcript))
           vtt == Lines(rendering.output)
           arrows(lines) == { k \in 1..Len(lines) : Count(lines[k], " --> ") = 1 }
       IN /\ rendering.output
               = << "WEBVTT", "\n", "\n" >> \o VttCues(rendering.transcript, n)
          /\ Count(rendering.output, " --> ") = n
          /\ vtt[1] = << "WEBVTT" >> /\ vtt[2] = << >>
          /\ SubSeq(rendering.output, 4, 15)
               = TimeText(rendering.transcript[1].offset.num, ".")
          /\ Cardinality(arrows(vtt)) = n
          /\ Cardinality(arrows(srt)) = n
          /\ { [l \in 1..Len(vtt[k]) |->
                  IF vtt[k][l] = "." THEN "," ELSE vtt[k][l]] :
                 k \in arrows(vtt) }
               = { srt[k] : k \in arrows(srt) }

\* A list of two different segments, the second with a duration, was
\* written as VTT.
C27_Witness ==
  /\ rendering.stage = "returned"
  /\ rendering.format = << "v", "t", "t" >>
  /\ Len(rendering.transcript) = 2
  /\ ~Malformed(rendering.transcript)
  /\ rendering.transcript[1] # rendering.transcript[2]
  /\ rendering.transcript[2].offset.num > 0
  /\ rendering.transcript[2].duration.num > 0
  /\ Count(rendering.output, " --> ") = 2

----------------------------------------------------------------------------
(* The routes: page.tsx (the transcript route) and download/route.ts.  The
   text of an error message is the sequence of its characters. *)

\* The characters of a part of a message; a part of one character is that
\* character
Spelling(part) ==
  CASE part = "Invalid video ID provided" ->
         << "I", "n", "v", "a", "l", "i", "d", " ", "v", "i", "d", "e",
            "o", " ", "I", "D", " ", "p", "r", "o", "v", "i", "d", "e",
            "d" >>
    [] part = "Transcripts are disabled for this video" ->
         << "T", "r", "a", "n", "s", "c", "r", "i", "p", "t", "s", " ",
            "a", "r", "e", " ", "d", "i", "s", "a", "b", "l", "e", "d",
            " ", "f", "o", "r", " ", "t", "h", "i", "s", " ", "v", "i",
            "d", "e", "o" >>
    [] part = "Video is unavailable or has been removed" ->
         << "V", "i", "d", "e", "o", " ", "i", "s", " ", "u", "n", "a",
            "v", "a", "i", "l", "a", "b", "l", "e", " ", "o", "r", " ",
            "h", "a", "s", " ", "b", "e", "e", "n", " ", "r", "e", "m",
            "o", "v", "e", "d" >>
    [] part = "Video is private or restricted" ->
         << "V", "i", "d", "e", "o", " ", "i", "s", " ", "p", "r", "i",
            "v", "a", "t", "e", " ", "o", "r", " ", "r", "e", "s", "t",
            "r", "i", "c", "t", "e", "d" >>
    [] part = "No transcript available for video " ->
         << "N", "o", " ", "t", "r", "a", "n", "s", "c", "r", "i", "p",
            "t", " ", "a", "v", "a", "i", "l", "a", "b", "l", "e", " ",
            "f", "o", "r", " ", "v", "i", "d", "e", "o", " " >>
    [] part = ". This could be because: [...] captions available on YouTube directly." ->
         << ".", " ", "T", "h", "i", "s", " ", "c", "o", "u", "l", "d",
            " ", "b", "e", " ", "b", "e", "c", "a", "u", "s", "e", ":",
            "\n", "-", " ", "T", "h", "e", " ", "v", "i", "d", "e", "o",
            " ", "d", "o", "e", "s", "n", "'", "t", " ", "h", "a", "v",
            "e", " ", "c", "a", "p", "t", "i", "o", "n", "s", " ", "e",
            "n", "a", "b", "l", "e", "d", "\n", "-", " ", "T", "h", "e",
            " ", "v", "i", "d", "e", "o", " ", "i", "s", " ", "p", "r",
            "i", "v", "a", "t", "e", ",", " ", "r", "e", "s", "t", "r",
            "i", "c", "t", "e", "d", ",", " ", "o", "r", " ", "u", "n",
            "a", "v", "a", "i", "l", "a", "b", "l", "e", " ", " ", "\n",
            "-", " ", "T", "r", "a", "n", "s", "c", "r", "i", "p", "t",
            "s", " ", "a", "r", "e", " ", "d", "i", "s", "a", "b", "l",
            "e", "d", " ", "b", "y", " ", "t", "h", "e", " ", "v", "i",
            "d", "e", "o", " ", "o", "w", "n", "e", "r", "\n", "-", " ",
            "T", "h", "e", "r", "e", "'", "s", " ", "a", " ", "t", "e",
            "m", "p", "o", "r", "a", "r", "y", " ", "i", "s", "s", "u",
            "e", " ", "w", "i", "t", "h", " ", "Y", "o", "u", "T", "u",
            "b", "e", "'", "s", " ", "c", "a", "p", "t", "i", "o", "n",
            " ", "s", "e", "r", "v", "i", "c", "e", "\n", "\n", "P", "l",
            "e", "a", "s", "e", " ", "t", "r", "y", " ", "a", " ", "d",
            "i", "f", "f", "e", "r", "e", "n", "t", " ", "v", "i", "d",
            "e", "o", " ", "o", "r", " ", "c", "h", "e", "c", "k", " ",
            "i", "f", " ", "t", "h", "e", " ", "v", "i", "d", "e", "o",
            " ", "h", "a", "s", " ", "c", "a", "p", "t", "i", "o", "n",
            "s", " ", "a", "v", "a", "i", "l", "a", "b", "l", "e", " ",
            "o", "n", " ", "Y", "o", "u", "T", "u", "b", "e", " ", "d",
            "i", "r", "e", "c", "t", "l", "y", "." >>
    [] part = "dQw4w9WgXcQ" ->
         << "d", "Q", "w", "4", "w", "9", "W", "g", "X", "c", "Q" >>
    [] part = "a_b-c_d-e_0" ->
         << "a", "_", "b", "-", "c", "_", "d", "-", "e", "_", "0" >>
    [] part = "Empty transcript provided" ->
         << "E", "m", "p", "t", "y", " ", "t", "r", "a", "n", "s", "c",
            "r", "i", "p", "t", " ", "p", "r", "o", "v", "i", "d", "e",
            "d" >>
    [] part = "Invalid text in segment " ->
         << "I", "n", "v", "a", "l", "i", "d", " ", "t", "e", "x", "t",
            " ", "i", "n", " ", "s", "e", "g", "m", "e", "n", "t", " " >>
    [] part = "Invalid duration in segment " ->
         << "I", "n", "v", "a", "l", "i", "d", " ", "d", "u", "r", "a",
            "t", "i", "o", "n", " ", "i", "n", " ", "s", "e", "g", "m",
            "e", "n", "t", " " >>
    [] part = "Invalid offset in segment " ->
         << "I", "n", "v", "a", "l", "i", "d", " ", "o", "f", "f", "s",
            "e", "t", " ", "i", "n", " ", "s", "e", "g", "m", "e", "n",
            "t", " " >>
    [] OTHER -> << part >>


\* The text of a message: the characters of its parts, one after another
RECURSIVE Text(_)
Text(message) ==
  IF message = << >> THEN << >>
  ELSE Spelling(Head(message)) \o Text(Tail(message))

\* The video ids whose spelling is known
SpelledIds == { "dQw4w9WgXcQ", "a_b-c_d-e_0" }

\* String.prototype.includes
textIncludes(text, phrase) ==
  \E i \in 0..(Len(text) - Len(phrase)) :
    SubSeq(text, i + 1, i + Len(phrase)) = phrase

\* page.tsx, lines 236-241
UnavailablePhrases ==
  { << "v", "i", "d", "e", "o", " ", "i", "s", " ", "u", "n", "a", "v",
       "a", "i", "l", "a", "b", "l", "e" >>,
    << "v", "i", "d", "e", "o", " ", "i", "s", " ", "p", "r", "i", "v",
       "a", "t", "e" >>,
    << "v", "i", "d", "e", "o", " ", "i", "s", " ", "r", "e", "s", "t",
       "r", "i", "c", "t", "e", "d" >>,
    << "v", "i", "d", "e", "o", " ", "h", "a", "s", " ", "b", "e", "e",
       "n", " ", "r", "e", "m", "o", "v", "e", "d" >> }

\* page.tsx, lines 252-257
NoTranscriptPhrases ==
  { << "n", "o", " ", "t", "r", "a", "n", "s", "c", "r", "i", "p", "t",
       " ", "a", "v", "a", "i", "l", "a", "b", "l", "e" >>,
    << "c", "a", "p", "t", "i", "o", "n", "s", " ", "a", "r", "e", " ",
       "d", "i", "s", "a", "b", "l", "e", "d" >>,
    << "c", "a", "p", "t", "i", "o", "n", "s", " ", "o", "r", " ", "t",
       "r", "a", "n", "s", "c", "r", "i", "p", "t", "s", " ", "e", "n",
       "a", "b", "l", "e", "d" >>,
    << "t", "r", "a", "n", "s", "c", "r", "i", "p", "t", " ", "i", "s",
       " ", "d", "i", "s", "a", "b", "l", "e", "d" >> }

\* page.tsx, lines 268-271
LivePhrases ==
  { << "l", "i", "v", "e", " ", "s", "t", "r", "e", "a", "m" >>,
    << "l", "i", "v", "e", " ", "v", "i", "d", "e", "o" >> }

\* page.tsx, lines 282
ShortsPhrases ==
  { << "s", "h", "o", "r", "t", "s" >> }

\* page.tsx, lines 293-296
RateLimitPhrases ==
  { << "r", "a", "t", "e", " ", "l", "i", "m", "i", "t" >>,
    << "t", "o", "o", " ", "m", "a", "n", "y", " ", "r", "e", "q", "u",
       "e", "s", "t", "s" >> }

\* page.tsx, lines 307
InvalidFormatPhrases ==
  { << "i", "n", "v", "a", "l", "i", "d", " ", "y", "o", "u", "t", "u",
       "b", "e", " ", "v", "i", "d", "e", "o", " ", "i", "d", " ", "f",
       "o", "r", "m", "a", "t" >> }

\* What a catch block answers: the status and the label of the error
Answer(status, error) == [status |-> status, error |-> error]

\* Variant: the test for a rate limit comes first.
transcriptStatus_rateLimitFirst(errorMessage) ==
  IF \E phrase \in RateLimitPhrases : textIncludes(errorMessage, phrase)
    THEN Answer(429, "Rate limited")
  ELSE IF \E phrase \in UnavailablePhrases : textIncludes(errorMessage, phrase)
    THEN Answer(404, "Video unavailable")
  ELSE IF \E phrase \in NoTranscriptPhrases :
            textIncludes(errorMessage, phrase)
    THEN Answer(404, "No transcript")
  ELSE IF \E phrase \in LivePhrases : textIncludes(errorMessage, phrase)
    THEN Answer(400, "Live video")
  ELSE IF \E phrase \in ShortsPhrases : textIncludes(errorMessage, phrase)
    THEN Answer(400, "Shorts")
  ELSE IF \E phrase \in InvalidFormatPhrases :
            textIncludes(errorMessage, phrase)
    THEN Answer(400, "Invalid format")
  ELSE Answer(500, "Server error")

\* page.tsx, lines 236-326: the answer to the lower-cased message of an error
transcriptStatus(errorMessage) ==
  IF \E phrase \in UnavailablePhrases : textIncludes(errorMessage, phrase)
    THEN Answer(404, "Video unavailable")
  ELSE IF \E phrase \in NoTranscriptPhrases :
            textIncludes(errorMessage, phrase)
    THEN Answer(404, "No transcript")
  ELSE IF \E phrase \in LivePhrases : textIncludes(errorMessage, phrase)
    THEN Answer(400, "Live video")
  ELSE IF \E phrase \in ShortsPhrases : textIncludes(errorMessage, phrase)
    THEN Answer(400, "Shorts")
  ELSE IF \E phrase \in RateLimitPhrases : textIncludes(errorMessage, phrase)
    THEN Answer(429, "Rate limited")
  ELSE IF \E phrase \in InvalidFormatPhrases :
            textIncludes(errorMessage, phrase)
    THEN Answer(400, "Invalid format")
  ELSE Answer(500, "Server error")

\* download/route.ts, lines 107-184: the same phrases but for the last
downloadStatus(errorMessage) ==
  IF \E phrase \in UnavailablePhrases : textIncludes(errorMessage, phrase)
    THEN Answer(404, "Video unavailable")
  ELSE IF \E phrase \in NoTranscriptPhrases :
            textIncludes(errorMessage, phrase)
    THEN Answer(404, "No transcript")
  ELSE IF \E phrase \in LivePhrases : textIncludes(errorMessage, phrase)
    THEN Answer(400, "Live video")
  ELSE IF \E phrase \in ShortsPhrases : textIncludes(errorMessage, phrase)
    THEN Answer(400, "Shorts")
  ELSE IF \E phrase \in RateLimitPhrases : textIncludes(errorMessage, phrase)
    THEN Answer(429, "Rate limited")
  ELSE Answer(500, "Failed to download transcript")

Routes == { "transcript", "download" }

\* The catch block of a route: error.message?.toLowerCase() || "", then the
\* tests in their order
catch(route, message) ==
  IF route = "transcript" THEN transcriptStatus(toLowerCase(message))
  ELSE downloadStatus(toLowerCase(message))

\* /^[a-zA-Z0-9_-]{11}$/.test(videoId)
IdPattern(chars) ==
  /\ Len(chars) = 11
  /\ \A k \in 1..Len(chars) :
       \/ \E l \in 1..26 : chars[k] \in {UpperCaseLetters[l], LowerCaseLetters[l]}
       \/ \E d \in 1..10 : chars[k] = DigitChars[d]
       \/ chars[k] \in {"_", "-"}

\* The string a parameter holds, as the resolver is given it
IdValue(chars) ==
  [type |-> "string",
   value |-> CHOOSE id \in SpelledIds : Spelling(id) = chars]

\* searchParams.get("format") || "txt"
formatOr(format) ==
  IF format.present /\ format.chars # << >> THEN format.chars
  ELSE << "t", "x", "t" >>

\* download/route.ts, lines 32-33
validFormats ==
  << << "t", "x", "t" >>, << "j", "s", "o", "n" >>, << "c", "s", "v" >>,
     << "s", "r", "t" >>, << "v", "t", "t" >> >>

Refuse(route, id, format, error) ==
  [stage |-> "answered", route |-> route, videoId |-> id, format |-> format,
   status |-> 400, error |-> error, caught |-> "none", message |-> << >>]

\* Variant: the download route does not look at the format before it calls
\* the resolver.
GET_formatUnchecked(route, id, format) ==
  /\ http.stage \in {"none", "answered"}
  /\ \A q \in Calls : pc[q] = "idle"
  /\ IF ~id.present \/ id.chars = << >>
       THEN /\ http' = Refuse(route, id, format, "Missing parameter")
            /\ UNCHANGED <<clock, shared, locals, history, rendering, timing, client>>
     ELSE IF ~IdPattern(id.chars)
       THEN /\ http' = Refuse(route, id, format, "Invalid format")
            /\ UNCHANGED <<clock, shared, locals, history, rendering, timing, client>>
     ELSE /\ started < MaxStarted
          /\ getYouTubeTranscript(1, IdValue(id.chars))
          /\ http' = [stage |-> "resolving", route |-> route, videoId |-> id,
                      format |-> format, status |-> 0, error |-> "",
                      caught |-> "none", message |-> << >>]
          /\ UNCHANGED client

\* page.tsx, lines 174-204, and download/route.ts, lines 5-45: a request is
\* handled up to its answer or to the first await of the resolve call.  One
\* request is handled at a time.
GET(route, id, format) ==
  /\ http.stage \in {"none", "answered"}
  /\ \A q \in Calls : pc[q] = "idle"
  /\ IF ~id.present \/ id.chars = << >>
       THEN /\ http' = Refuse(route, id, format, "Missing parameter")
            /\ UNCHANGED <<clock, shared, locals, history, rendering, timing, client>>
     ELSE IF ~IdPattern(id.chars)
       THEN /\ http' = Refuse(route, id, format, "Invalid format")
            /\ UNCHANGED <<clock, shared, locals, history, rendering, timing, client>>
     ELSE IF /\ route = "download"
             /\ \A k \in 1..Len(validFormats) :
                  validFormats[k] # toLowerCase(formatOr(format))
       THEN /\ http' = Refuse(route, id, format, "Invalid format")
            /\ UNCHANGED <<clock, shared, locals, history, rendering, timing, client>>
     ELSE /\ started < MaxStarted
          /\ getYouTubeTranscript(1, IdValue(id.chars))
          /\ http' = [stage |-> "resolving", route |-> route, videoId |-> id,
                      format |-> format, status |-> 0, error |-> "",
                      caught |-> "none", message |-> << >>]
          /\ UNCHANGED client

\* page.tsx, lines 204-327, and download/route.ts, lines 45-185: the resolve
\* call has settled and the handler runs to its answer
GETSettles ==
  /\ http.stage = "resolving"
  /\ pc[1] = "done"
  /\ LET rendered == formatTranscript(transcriptOf(result[1].value),
                                      formatOr(http.format))
         thrown == IF result[1].kind = "throw" THEN Text(result[1].message)
                   ELSE Text(rendered.message)
         answer ==
           IF result[1].kind = "throw" THEN catch(http.route, thrown)
           ELSE IF result[1].value = << >>
             THEN Answer(404, "No transcript")
           ELSE IF http.route = "transcript" THEN Answer(200, "")
           ELSE IF rendered.threw THEN catch(http.route, thrown)
           ELSE IF Trim(rendered.output) = << >>
             THEN Answer(500, "Failed to format transcript")
           ELSE Answer(200, "")
         caught ==
           IF result[1].kind = "throw" THEN "resolver"
           ELSE IF result[1].value # << >> /\ http.route = "download"
                     /\ rendered.threw THEN "renderer"
           ELSE "none"
     IN http' = [http EXCEPT !.stage = "answered",
                             !.status = answer.status,
                             !.error = answer.error,
                             !.caught = caught,
                             !.message = IF caught = "none" THEN << >>
                                         ELSE thrown]
  /\ Resume(1)
  /\ UNCHANGED client

\* The parameters of a request: none, or a string
Absent == [present |-> FALSE, chars |-> << >>]
Param(chars) == [present |-> TRUE, chars |-> chars]

VideoIdParams ==
  { Absent, Param(<< >>),
    Param(Spelling("dQw4w9WgXcQ")), Param(Spelling("a_b-c_d-e_0")),
    Param(SubSeq(Spelling("dQw4w9WgXcQ"), 1, 10)),
    Param(Spelling("dQw4w9WgXcQ") \o << "A" >>),
    Param(<< "d", "Q", "w", "4", "w", "9", "W", "g", "X", "c", "!" >>),
    Param(<< "d", "Q", "w", "4", " ", "9", "W", "g", "X", "c", "Q" >>) }

FormatParams ==
  { Absent, Param(<< >>), Param(<< "c", "s", "v" >>),
    Param(<< "S", "R", "T" >>), Param(<< "x", "m", "l" >>),
    Param(<< "t", "x", "t", " " >>) }

\* Requests, one at a time, to either route, and the resolve calls they make
RouteNext ==
  \/ \E route \in Routes, id \in VideoIdParams, format \in FormatParams :
       /\ route = "transcript" => format = Absent
       /\ GET(route, id, format)
  \/ \E p \in Calls : TimerFires(p)
  \/ \E p \in Calls : Dispatch(p)
  \/ \E p \in Calls, o \in AOutcomes : FirstAttemptSettles(p, o)
  \/ \E p \in Calls, o \in BOutcomes : StrategyBSettles(p, o)
  \/ \E p \in Calls, o \in AOutcomes : UrlAttemptSettles(p, o)
  \/ GETSettles
  \/ Tick(RouteHorizonMs)

RouteSpec == Init /\ [][RouteNext]_vars

\* The catch blocks on their own: an error with any of ProbeMessages as its
\* message is caught by either route.  The messages are every phrase in
\* capital letters after some words, every two phrases one after the other,
\* and messages that hold no phrase.
toUpperCase(s) ==
  [i \in 1..Len(s) |->
     IF \E k \in 1..Len(LowerCaseLetters) : LowerCaseLetters[k] = s[i]
       THEN UpperCaseLetters[CHOOSE k \in 1..Len(LowerCaseLetters) :
                               LowerCaseLetters[k] = s[i]]
       ELSE s[i]]

Phrases ==
  UnavailablePhrases \cup NoTranscriptPhrases \cup LivePhrases
    \cup ShortsPhrases \cup RateLimitPhrases \cup InvalidFormatPhrases

ProbeMessages ==
  { << "E", "r", "r", "o", "r", ":", " " >> \o toUpperCase(a) : a \in Phrases }
    \cup { a \o << ";", " " >> \o b : a, b \in Phrases }
    \cup { << >>, Text(DisabledMessage), Text(InvalidIdMessage),
           << "V", "i", "d", "e", "o", " ", "u", "n", "a", "v", "a", "i", "l",
              "a", "b", "l", "e" >>,
           << "s", "h", "o", "r", "t" >>,
           << "r", "a", "t", "e", "-", "l", "i", "m", "i", "t" >> }

MapInit ==
  /\ clock = Ms(StartMs)
  /\ lastRequestTime = 0
  /\ consecutiveFailures = 0
  /\ pc = [p \in Calls |-> "idle"]
  /\ step = [p \in Calls |-> 0]
  /\ videoId = [p \in Calls |-> ValidId]
  /\ paceDelay = [p \in Calls |-> 0]
  /\ wakeAt = [p \in Calls |-> 0]
  /\ result = [p \in Calls |-> NoResult]
  /\ attempts = [p \in Calls |-> << >>]
  /\ paceCalls = [p \in Calls |-> 0]
  /\ counterWrites = [p \in Calls |-> << >>]
  /\ lastDispatch = -1
  /\ started = 0
  /\ ledger = << >>
  /\ rendering = NoRendering
  /\ timing = NoTiming
  /\ \E route \in Routes, message \in ProbeMessages :
       http = [NoRequest EXCEPT !.stage = "thrown", !.route = route,
                                !.videoId = Param(Spelling("dQw4w9WgXcQ")),
                                !.caught = "probe", !.message = message]
  /\ client = NoClient

\* page.tsx, lines 225-327, and download/route.ts, lines 97-185
Catch ==
  /\ http.stage = "thrown"
  /\ LET answer == catch(http.route, http.message)
     IN http' = [http EXCEPT !.stage = "answered", !.status = answer.status,
                             !.error = answer.error]
  /\ UNCHANGED <<clock, shared, locals, history, rendering, timing, client>>

MapNext == Catch

MapSpec == MapInit /\ [][MapNext]_vars

\* The phrase stands in the text, in whatever case the letters of the text
\* are
Occurs(text, phrase) ==
  \E i \in 0..(Len(text) - Len(phrase)) :
    \A k \in 1..Len(phrase) :
      \/ text[i + k] = phrase[k]
      \/ \E l \in 1..26 :
           text[i + k] = UpperCaseLetters[l] /\ phrase[k] = LowerCaseLetters[l]

\* The groups of phrases in the order of the claim, each with its status
\* and the label of its answer
PhraseGroups ==
  << [phrases |-> UnavailablePhrases, answer |-> Answer(404, "Video unavailable")],
     [phrases |-> NoTranscriptPhrases, answer |-> Answer(404, "No transcript")],
     [phrases |-> LivePhrases, answer |-> Answer(400, "Live video")],
     [phrases |-> ShortsPhrases, answer |-> Answer(400, "Shorts")],
     [phrases |-> RateLimitPhrases, answer |-> Answer(429, "Rate limited")],
     [phrases |-> InvalidFormatPhrases, answer |-> Answer(400, "Invalid format")] >>

\* C28: the transcript route answers a failed request with the status of
\* the first group, in the order video-unavailable (404), no-transcript
\* (404), live-video (400), shorts (400), rate-limit (429), invalid-format
\* (400), of which a phrase stands in the message of the error, whatever the
\* case of its letters; with 500 when no group has one.
C28_StatusOrder ==
  (/\ http.stage = "answered"
   /\ http.route = "transcript"
   /\ http.caught # "none")
    => LET matching == { g \in 1..Len(PhraseGroups) :
                           \E phrase \in PhraseGroups[g].phrases :
                             Occurs(http.message, phrase) }
       IN IF matching = { }
            THEN http.status = 500 /\ http.error = "Server error"
          ELSE LET first == CHOOSE g \in matching : \A h \in matching : g <= h
               IN /\ http.status = PhraseGroups[first].answer.status
                  /\ http.error = PhraseGroups[first].answer.error

\* The message of the error names a rate limit before it says that the
\* video is private: the answer is 404, that of the earlier group.
C28_Witness ==
  /\ http.stage = "answered"
  /\ http.route = "transcript"
  /\ http.caught = "probe"
  /\ \E a \in RateLimitPhrases, b \in UnavailablePhrases :
       http.message = a \o << ";", " " >> \o b
  /\ http.status = 404
  /\ http.error = "Video unavailable"

\* C29: an error of the resolver, raised for a video id that the route let
\* through, is answered 404 by the transcript route and by the download
\* route.
C29_ResolverErrors ==
  (http.stage = "answered" /\ http.caught = "resolver") => http.status = 404

\* The id is missing, or is not 11 characters of letters, digits, "_" and "-"
BadId(id) ==
  \/ ~id.present
  \/ Len(id.chars) # 11
  \/ \E k \in 1..Len(id.chars) :
       id.chars[k] \notin
         { UpperCaseLetters[l] : l \in 1..26 }
           \cup { LowerCaseLetters[l] : l \in 1..26 }
           \cup { DigitChars[d] : d \in 1..10 } \cup { "_", "-" }

\* A format is given and is none of the five names, whatever its case
BadFormat(format) ==
  /\ format.present
  /\ \A name \in FormatNames : ~SameName(format.chars, name)

\* The request is answered 400, and nothing of the resolver has changed: no
\* call was made, no strategy contacted, the shared variables are as before
RefusedUntouched ==
  /\ http'.stage = "answered"
  /\ http'.status = 400
  /\ UNCHANGED <<clock, shared, locals, history, client>>

\* C30, as stated: either route answers 400 without a resolve call when the
\* video id is missing or is not 11 characters of [a-zA-Z0-9_-], and the
\* download route does so too when the format is none of txt, json, csv,
\* srt and vtt, whatever its case.
C30_Refusals ==
  [][(/\ http' # http
       /\ http.stage # "resolving"
       /\ GET(http'.route, http'.videoId, http'.format)
       /\ \/ BadId(http'.videoId)
          \/ http'.route = "download" /\ BadFormat(http'.format))
        => RefusedUntouched]_vars

\* C30, amended: the download route refuses a format that is not empty and
\* is none of the five names; a request with no format or an empty one is
\* handled as one for "txt".  A request that is not refused calls resolve.
C30_RefusalsOfGivenFormats ==
  [][(/\ http' # http
       /\ http.stage # "resolving"
       /\ GET(http'.route, http'.videoId, http'.format))
        => IF \/ BadId(http'.videoId)
              \/ /\ http'.route = "download"
                 /\ BadFormat(http'.format)
                 /\ http'.format.chars # << >>
             THEN RefusedUntouched
           ELSE /\ http'.stage = "resolving"
                /\ started' = started + 1
                /\ pc'[1] # "idle"]_vars

\* After a request that made a resolve call, the download route has
\* refused a request for the format "xml" with a well-formed id, and the
\* shared variables are those the earlier call left.
C30_Witness ==
  /\ http.stage = "answered"
  /\ http.status = 400
  /\ http.route = "download"
  /\ ~BadId(http.videoId)
  /\ http.format = Param(<< "x", "m", "l" >>)
  /\ started >= 1
  /\ lastRequestTime > 0
  /\ \A q \in Calls : pc[q] = "idle"

\* The counter after the steps of a ledger, in order, from 0
RECURSIVE CounterAfter(_)
CounterAfter(steps) ==
  IF steps = << >> THEN 0
  ELSE LET before == CounterAfter(SubSeq(steps, 1, Len(steps) - 1))
       IN IF steps[Len(steps)] = "inc" THEN before + 1
          ELSE IF before = 0 THEN 0 ELSE before - 1

\* C31: whatever the interleaving of the calls, a call that ends changes the
\* counter by one step on the value it has at that moment: up by 1 when the
\* call ends with the NotFound message, down by 1 but not below 0 when it
\* returns, not at all when it ends with the invalid-id error or a
\* permanent one; nothing else changes the counter, which is always the
\* result of these steps in the order the calls ended.
C31_CounterSteps ==
  [][LET ended == { p \in Calls : pc[p] # "done" /\ pc'[p] = "done" }
     IN /\ Cardinality(ended) <= 1
        /\ ended = { } => consecutiveFailures' = consecutiveFailures
        /\ \A p \in ended :
             IF result'[p].kind = "return"
               THEN /\ consecutiveFailures'
                         = (IF consecutiveFailures = 0 THEN 0
                            ELSE consecutiveFailures - 1)
                    /\ ledger' = Append(ledger, "dec")
             ELSE IF result'[p].message = NotFoundMessage(videoId[p])
               THEN /\ consecutiveFailures' = consecutiveFailures + 1
                    /\ ledger' = Append(ledger, "inc")
             ELSE /\ result'[p].message
                       \in { InvalidIdMessage, DisabledMessage,
                             UnavailableMessage, PrivateMessage }
                  /\ consecutiveFailures' = consecutiveFailures
                  /\ ledger' = ledger
        /\ consecutiveFailures' = CounterAfter(ledger')]_vars

\* Two calls that were in flight together have both ended with the NotFound
\* message, and the counter is 2.
C31_Witness ==
  /\ \A p \in {1, 2} :
       /\ pc[p] = "done"
       /\ result[p] = Thrown(NotFoundMessage(videoId[p]))
       /\ Len(attempts[p]) = 4
  /\ ledger = << "inc", "inc" >>
  /\ consecutiveFailures = 2

\* An error of strategy A with one of the three permanent texts
PermanentThrows ==
  { o \in AOutcomes : o.kind = "throw" /\ PermanentText(o.message) }

\* C32: only the first strategy A attempt ends the call early.  An error of
\* a URL retry whose message holds "Transcript is disabled", "Video
\* unavailable" or "private", and an error of strategy B, is swallowed: the
\* call goes on to its next attempt, and after the last attempt it ends with
\* the NotFound message, not a permanent one, and the counter is one more.
C32_RetriesNeverExitEarly ==
  [][\A p \in Calls :
       (pc[p] = "fetching" /\ step[p] >= 1) =>
         /\ \A o \in BOutcomes :
              (o.kind = "throw" /\ StrategyBSettles(p, o)) => GoesOn(p, 2)
         /\ \A o \in PermanentThrows :
              UrlAttemptSettles(p, o)
                => IF step[p] < 3 THEN GoesOn(p, step[p] + 1)
                   ELSE /\ pc'[p] = "done"
                        /\ result'[p] = Thrown(NotFoundMessage(videoId[p]))
                        /\ result'[p].message
                             \notin { DisabledMessage, UnavailableMessage,
                                      PrivateMessage }
                        /\ consecutiveFailures' = consecutiveFailures + 1
                        /\ Len(attempts'[p]) = 4]_vars

\* A call waits for the answer of its last URL retry, which may be an error
\* with a permanent text; its first attempt failed with another error.
C32_Witness ==
  \E p \in Calls :
    /\ pc[p] = "fetching"
    /\ step[p] = 3
    /\ Len(attempts[p]) = 4
    /\ \A o \in PermanentThrows : ENABLED UrlAttemptSettles(p, o)

\* C33: a call that was invoked ends, when its timers fire and its strategy
\* calls settle: it returns a list that is not empty or throws an error.  It
\* makes four strategy calls and four pace calls at most, and never goes
\* back to an attempt it has made.
C33_Terminates ==
  /\ \A p \in Calls : (pc[p] \notin {"idle", "done"}) ~> (pc[p] = "done")
  /\ [](\A p \in Calls :
          /\ Len(attempts[p]) <= 4
          /\ paceCalls[p] <= 4
          /\ Len(attempts[p]) <= step[p] + 1
          /\ pc[p] = "done"
               => \/ result[p].kind = "return" /\ result[p].value # << >>
                  \/ result[p].kind = "throw" /\ result[p].message # << >>)
  /\ [][\A p \in Calls :
          pc[p] \notin {"idle", "done"}
            => /\ step'[p] >= step[p]
               /\ Len(attempts'[p]) >= Len(attempts[p])
               /\ pc'[p] # "idle"]_vars

\* A call has ended after the horizon, its fourth strategy call having
\* returned a list, after four pace calls.
C33_Witness ==
  \E p \in Calls :
    /\ pc[p] = "done"
    /\ result[p].kind = "return"
    /\ Len(attempts[p]) = 4
    /\ paceCalls[p] = 4
    /\ clock > Ms(StartMs + HorizonMs)

\* ---------------------------------------------------------------------
\* The extractor component, types/youtube.ts

\* Line 144; cleanup (lines 147-149), the one place that writes false to
\* it, is passed to no effect and called nowhere.
isMountedRef == TRUE

\* What fetch is given: a response with a status, or a thrown error
StatusInputs == {200, 300, 404, 500}

statusText(status) ==
  CASE status = 200 -> "OK"
    [] status = 300 -> "Multiple Choices"
    [] status = 404 -> "Not Found"
    [] OTHER -> "Internal Server Error"

FetchOutcomes ==
  { [kind |-> "response", status |-> n, message |-> << >>] : n \in StatusInputs }
    \cup { [kind |-> "throw", status |-> 0, message |-> << "Failed to fetch" >>] }

\* Response.ok
ok(status) == status >= 200 /\ status <= 299

\* What response.json() is given: the object of the body with its error
\* field ("": none), or a thrown SyntaxError
DataInputs ==
  { [kind |-> "data", error |-> e] : e \in {"", "Transcript not available"} }
    \cup { [kind |-> "throw", error |-> "Unexpected end of JSON input"] }

\* Array.prototype.slice(from, to), from and to not negative
slice(a, from, to) ==
  LET last == IF to < Len(a) THEN to ELSE Len(a)
  IN IF from >= last THEN << >> ELSE SubSeq(a, from + 1, last)

\* Array.prototype.filter((v) => v.selected)
RECURSIVE filterSelected(_)
filterSelected(a) ==
  IF a = << >> THEN << >>
  ELSE IF Head(a).selected THEN << Head(a) >> \o filterSelected(Tail(a))
  ELSE filterSelected(Tail(a))

\* { ...p, ...updates }
Spread(p, updates) ==
  [f \in DOMAIN p |-> IF f \in DOMAIN updates THEN updates[f] ELSE p[f]]

\* Variant: the update is written to every status of the list.
updateProcessingStatus_all(processing, id, updates) ==
  IF ~isMountedRef THEN processing
  ELSE [k \in 1..Len(processing) |-> Spread(processing[k], updates)]

\* Lines 218-227: the state after the update is applied
updateProcessingStatus(processing, id, updates) ==
  IF ~isMountedRef THEN processing
  ELSE [k \in 1..Len(processing) |->
          IF processing[k].videoId = id THEN Spread(processing[k], updates)
          ELSE processing[k]]

\* Lines 229-241 and 106-111, for the videos of a batch in their order:
\* each call writes the status and issues its first fetch
RECURSIVE processVideoTranscript(_, _)
processVideoTranscript(c, batch) ==
  IF batch = << >> THEN c
  ELSE LET id == Head(batch).videoId
       IN processVideoTranscript(
            [c EXCEPT !.processing =
                        updateProcessingStatus(@, id,
                          [status |-> "processing", progress |-> 10]),
                      !.calls[id] = [NoCall EXCEPT !.pc = "fetching"],
                      !.order = Append(@, id)],
            Tail(batch))

\* Lines 289-298: one turn of the loop, up to the await
Batch(c, i) ==
  IF ~isMountedRef THEN c
  ELSE processVideoTranscript(
         [c EXCEPT !.extract.pc = "batch", !.extract.i = i],
         slice(c.extract.selectedVideos, i, i + BATCH_SIZE))

\* Lines 265-298, up to the first await; the button is disabled while
\* isExtracting and while nothing is selected (line 562)
handleExtract ==
  /\ ~client.isExtracting
  /\ filterSelected(client.videos) # << >>
  /\ LET selectedVideos == filterSelected(client.videos)
         processingStatuses ==
           [k \in 1..Len(selectedVideos) |->
              [videoId |-> selectedVideos[k].videoId, status |-> "pending",
               progress |-> 0, error |-> << >>]]
     IN IF Len(selectedVideos) = 0
          THEN client' = [client EXCEPT !.searchError =
                                          "Please select at least one video"]
          ELSE client' =
                 Batch([client EXCEPT
                          !.isExtracting = TRUE,
                          !.processing = processingStatuses,
                          !.extract = [NoExtract EXCEPT
                                         !.selectedVideos = selectedVideos],
                          !.calls = [v \in Videos |-> NoCall],
                          !.order = << >>,
                          !.faulty = { }], 0)
  /\ UNCHANGED <<clock, shared, locals, history, rendering, timing, http>>

\* The videos whose checkbox is clicked
ToggleInputs == {2}

\* Lines 366-375 (the checkbox is disabled while isExtracting, line 502)
toggleVideoSelection(id) ==
  /\ ~client.isExtracting
  /\ \E k \in 1..Len(client.videos) : client.videos[k].videoId = id
  /\ client' = [client EXCEPT !.videos =
       [k \in 1..Len(@) |->
          IF @[k].videoId = id THEN [@[k] EXCEPT !.selected = ~@]
          ELSE @[k]]]
  /\ UNCHANGED <<clock, shared, locals, history, rendering, timing, http>>

\* Lines 384-390 (the button is there while videos are listed, line 438)
clearSearch ==
  /\ Len(client.videos) > 0
  /\ client' = [client EXCEPT !.videos = << >>, !.processing = << >>,
                              !.searchError = ""]
  /\ UNCHANGED <<clock, shared, locals, history, rendering, timing, http>>

\* The error a failed fetch leaves in the catch of line 123
fetchError(o) ==
  IF o.kind = "throw" THEN o.message
  ELSE << "HTTP ", ToString(o.status), ": ", statusText(o.status) >>

\* Lines 255-259, and the call is over
Failed(c, id, message) ==
  [c EXCEPT !.processing =
              updateProcessingStatus(@, id,
                [status |-> "error", progress |-> 0, error |-> message]),
            !.calls[id] = [NoCall EXCEPT !.pc = "settled"]]

\* The video may meet a fault
MayFail(id) ==
  id \in client.faulty \/ Cardinality(client.faulty) < MaxFaulty

\* Variant: the wait is RETRY_DELAY after every failed fetch.
FetchSettles_flatDelay(id, o) ==
  /\ client.calls[id].pc = "fetching"
  /\ LET i == client.calls[id].i
         retries == MAX_RETRIES
     IN IF o.kind = "response"
           /\ (ok(o.status) \/ (o.status >= 400 /\ o.status < 500))
          THEN /\ ~ok(o.status) => MayFail(id)
               /\ client' = [client EXCEPT
                               !.calls[id].pc = "parsing",
                               !.calls[id].i = 0,
                               !.calls[id].status = o.status,
                               !.faulty = IF ok(o.status) THEN @
                                          ELSE @ \cup {id}]
          ELSE /\ MayFail(id)
               /\ IF i = retries - 1
                    THEN client' = [Failed(client, id, fetchError(o))
                                      EXCEPT !.faulty = @ \cup {id}]
                    ELSE client' = [client EXCEPT
                                      !.calls[id].pc = "waiting",
                                      !.calls[id].timer = RETRY_DELAY,
                                      !.faulty = @ \cup {id}]
  /\ UNCHANGED <<clock, shared, locals, history, rendering, timing, http>>

\* Lines 108-128: the fetch of a call settles.  The response is returned
\* to line 239 and the body is asked for (line 243), or the error is
\* thrown to line 254, or the wait of line 125 begins.
FetchSettles(id, o) ==
  /\ client.calls[id].pc = "fetching"
  /\ LET i == client.calls[id].i
         retries == MAX_RETRIES
     IN IF o.kind = "response"
           /\ (ok(o.status) \/ (o.status >= 400 /\ o.status < 500))
          THEN /\ ~ok(o.status) => MayFail(id)
               /\ client' = [client EXCEPT
                               !.calls[id].pc = "parsing",
                               !.calls[id].i = 0,
                               !.calls[id].status = o.status,
                               !.faulty = IF ok(o.status) THEN @
                                          ELSE @ \cup {id}]
          ELSE /\ MayFail(id)
               /\ IF i = retries - 1
                    THEN client' = [Failed(client, id, fetchError(o))
                                      EXCEPT !.faulty = @ \cup {id}]
                    ELSE client' = [client EXCEPT
                                      !.calls[id].pc = "waiting",
                                      !.calls[id].timer = RETRY_DELAY * (i + 1),
                                      !.faulty = @ \cup {id}]
  /\ UNCHANGED <<clock, shared, locals, history, rendering, timing, http>>

\* Lines 125-129 and 106-111: the timer of the wait fires, i++, and the
\* next fetch is issued
RetryTimerFires(id) ==
  /\ client.calls[id].pc = "waiting"
  /\ client.calls[id].timer = 0
  /\ client' = [client EXCEPT !.calls[id].pc = "fetching",
                              !.calls[id].i = @ + 1]
  /\ UNCHANGED <<clock, shared, locals, history, rendering, timing, http>>

\* Lines 243-260: the body settles
JsonSettles(id, d) ==
  /\ client.calls[id].pc = "parsing"
  /\ (d.kind = "throw" \/ d.error # "") => MayFail(id)
  /\ IF d.kind = "throw"
       THEN client' = [Failed(client, id, << d.error >>)
                         EXCEPT !.faulty = @ \cup {id}]
     ELSE IF ~ok(client.calls[id].status)
       THEN client' = Failed(client, id,
                        << IF d.error # "" THEN d.error
                           ELSE "Failed to fetch transcript" >>)
     ELSE client' =
            [client EXCEPT
               !.processing =
                 updateProcessingStatus(
                   updateProcessingStatus(@, id, [progress |-> 100]),
                   id, [status |-> "completed", progress |-> 100]),
               !.calls[id] = [NoCall EXCEPT !.pc = "settled"],
               !.faulty = IF d.error # "" THEN @ \cup {id} ELSE @]
  /\ UNCHANGED <<clock, shared, locals, history, rendering, timing, http>>

\* The videos of the turn of the loop in progress
InBatch(c) ==
  { c.extract.selectedVideos[k].videoId :
      k \in { j \in 1..Len(c.extract.selectedVideos) :
                j > c.extract.i /\ j <= c.extract.i + BATCH_SIZE } }

\* Variant: the loop goes on when the first call of the batch has settled.
allSettled_first ==
  /\ client.extract.pc = "batch"
  /\ \E id \in InBatch(client) : client.calls[id].pc = "settled"
  /\ IF client.extract.i + BATCH_SIZE < Len(client.extract.selectedVideos)
        /\ isMountedRef
       THEN client' = [client EXCEPT !.extract.pc = "delay",
                                     !.extract.timer = BATCH_DELAY]
       ELSE client' = [client EXCEPT
                         !.extract.pc = "idle",
                         !.extract.i = @ + BATCH_SIZE,
                         !.isExtracting = IF isMountedRef THEN FALSE ELSE @]
  /\ UNCHANGED <<clock, shared, locals, history, rendering, timing, http>>

\* Lines 294-311: every call of the batch has settled.  The delay before
\* the next batch begins, or the loop ends and the finally block runs.
allSettled ==
  /\ client.extract.pc = "batch"
  /\ \A id \in InBatch(client) : client.calls[id].pc = "settled"
  /\ IF client.extract.i + BATCH_SIZE < Len(client.extract.selectedVideos)
        /\ isMountedRef
       THEN client' = [client EXCEPT !.extract.pc = "delay",
                                     !.extract.timer = BATCH_DELAY]
       ELSE client' = [client EXCEPT
                         !.extract.pc = "idle",
                         !.extract.i = @ + BATCH_SIZE,
                         !.isExtracting = IF isMountedRef THEN FALSE ELSE @]
  /\ UNCHANGED <<clock, shared, locals, history, rendering, timing, http>>

\* Lines 302-304 and 289-298: the timer of the delay fires, i += BATCH_SIZE,
\* and the next batch is started
BatchTimerFires ==
  /\ client.extract.pc = "delay"
  /\ client.extract.timer = 0
  /\ client' = Batch(client, client.extract.i + BATCH_SIZE)
  /\ UNCHANGED <<clock, shared, locals, history, rendering, timing, http>>

\* Time passes: what is left of every timer goes down by the step
StepMs == RETRY_DELAY
Left(timer) == IF timer > StepMs THEN timer - StepMs ELSE 0

Elapse ==
  /\ \/ client.extract.timer > 0
     \/ \E id \in Videos : client.calls[id].timer > 0
  /\ client' = [client EXCEPT
                  !.extract.timer = Left(@),
                  !.calls = [id \in Videos |->
                               [@[id] EXCEPT !.timer = Left(@)]]]
  /\ UNCHANGED <<clock, shared, locals, history, rendering, timing, http>>

\* A search has listed n videos, every one selected (lines 189-206)
Listed(n) == [k \in 1..n |-> [videoId |-> k, selected |-> TRUE]]

ClientInit ==
  /\ clock = Ms(StartMs)
  /\ lastRequestTime = 0
  /\ consecutiveFailures = 0
  /\ pc = [p \in Calls |-> "idle"]
  /\ step = [p \in Calls |-> 0]
  /\ videoId = [p \in Calls |-> ValidId]
  /\ paceDelay = [p \in Calls |-> 0]
  /\ wakeAt = [p \in Calls |-> 0]
  /\ result = [p \in Calls |-> NoResult]
  /\ attempts = [p \in Calls |-> << >>]
  /\ paceCalls = [p \in Calls |-> 0]
  /\ counterWrites = [p \in Calls |-> << >>]
  /\ lastDispatch = -1
  /\ started = 0
  /\ ledger = << >>
  /\ rendering = NoRendering
  /\ timing = NoTiming
  /\ http = NoRequest
  /\ \E n \in 1..MaxVideos : client = [NoClient EXCEPT !.videos = Listed(n)]

ClientNext ==
  \/ handleExtract
  \/ \E id \in ToggleInputs : toggleVideoSelection(id)
  \/ clearSearch
  \/ \E id \in Videos, o \in FetchOutcomes : FetchSettles(id, o)
  \/ \E id \in Videos : RetryTimerFires(id)
  \/ \E id \in Videos, d \in DataInputs : JsonSettles(id, d)
  \/ allSettled
  \/ BatchTimerFires
  \/ Elapse

ClientSpec == ClientInit /\ [][ClientNext]_vars

\* The status the component shows for the video
StatusOf(c, id) ==
  LET k == CHOOSE k \in 1..Len(c.processing) : c.processing[k].videoId = id
  IN c.processing[k]

\* The status shown for the video is one of the set, where the list of
\* statuses has not been cleared
Shows(c, id, set) ==
  c.processing # << >> => StatusOf(c, id).status \in set

\* What is left of every timer has gone down by the step, and nothing
\* else has moved
TimePasses ==
  /\ client'.extract.timer = Left(client.extract.timer)
  /\ client'.extract.pc = client.extract.pc
  /\ client'.processing = client.processing
  /\ \A id \in Videos :
       /\ client'.calls[id].timer = Left(client.calls[id].timer)
       /\ client'.calls[id].pc = client.calls[id].pc

\* C34: fetchWithRetry issues three fetches at most.  A response that is
\* ok or has a status of 400 to 499 is returned and no other fetch is made;
\* after a response of 500 to 599 or an error thrown by fetch at the
\* attempt i (from 1, i < 3) the call waits 1000 * i ms and fetches again,
\* and not before the timer is over; after the third failed attempt the
\* error of that attempt is thrown, with no wait.
C34_FetchWithRetry ==
  [][\A id \in Videos :
       LET call == client.calls[id]
           after == client'.calls[id]
       IN /\ call.pc = "fetching" => call.i + 1 <= 3
          /\ (call.pc = "fetching" /\ after.pc # "fetching") =>
               /\ after.pc \in {"parsing", "waiting", "settled"}
               /\ \A o \in FetchOutcomes : FetchSettles(id, o) =>
                    IF o.kind = "response"
                       /\ (o.status \in 200..299 \/ o.status \in 400..499)
                      THEN after.pc = "parsing" /\ after.status = o.status
                    ELSE IF o.kind = "throw" \/ o.status \in 500..599
                      THEN IF call.i + 1 < 3
                             THEN /\ after.pc = "waiting"
                                  /\ after.i = call.i
                                  /\ after.timer = 1000 * (call.i + 1)
                                  /\ client'.processing = client.processing
                             ELSE /\ after.pc = "settled"
                                  /\ after.timer = 0
                                  /\ Shows(client', id, {"error"})
                                  /\ client'.processing # << >> =>
                                       StatusOf(client', id).error =
                                         IF o.kind = "throw" THEN o.message
                                         ELSE << "HTTP ", "500", ": ",
                                                 "Internal Server Error" >>
                    ELSE TRUE
          /\ call.pc = "parsing" => after.pc \in {"parsing", "settled"}
          /\ call.pc = "waiting" =>
               IF after.pc = "waiting"
                 THEN /\ after.i = call.i
                      /\ \/ after.timer = call.timer
                         \/ after.timer = Left(call.timer) /\ TimePasses
                 ELSE /\ call.timer = 0
                      /\ after.pc = "fetching"
                      /\ after.i = call.i + 1]_vars

\* The third fetch of a call has been answered with the status 500, and
\* the component shows the error of that response.
C34_Witness ==
  \E id \in Videos :
    /\ client.calls[id].pc = "settled"
    /\ \E k \in 1..Len(client.processing) :
         /\ client.processing[k].videoId = id
         /\ client.processing[k].status = "error"
         /\ client.processing[k].error =
              << "HTTP ", "500", ": ", "Internal Server Error" >>

\* The videos whose processVideoTranscript call is in progress
Processing(c) ==
  { id \in Videos : c.calls[id].pc \in {"fetching", "waiting", "parsing"} }

\* The ids of a list of videos, in its order
Ids(a) == [k \in 1..Len(a) |-> a[k].videoId]

\* The calls made so far have settled and show completed or error
Settled(c) ==
  \A k \in 1..Len(c.order) :
    /\ c.calls[c.order[k]].pc = "settled"
    /\ Shows(c, c.order[k], {"completed", "error"})

\* C35: during handleExtract five videos at most are in progress.  The
\* videos are started in the order of the selected list, five at a time,
\* each once; a batch after the first is started only when every video
\* started before has settled (completed or error) and the timer of
\* 2000 ms set after that has run out; no timer is set after the last
\* batch.
C35_Batches ==
  /\ [](client.isExtracting =>
          LET sel == client.extract.selectedVideos
              upTo == IF client.extract.i + 5 < Len(sel)
                        THEN client.extract.i + 5 ELSE Len(sel)
          IN /\ Cardinality(Processing(client)) <= 5
             /\ client.order = SubSeq(Ids(sel), 1, upTo)
             /\ Processing(client) \subseteq
                  { client.order[k] : k \in (client.extract.i + 1)..upTo }
             /\ \A k \in 1..Len(sel) :
                  k > upTo => /\ client.calls[sel[k].videoId].pc = "idle"
                              /\ Shows(client, sel[k].videoId, {"pending"})
             /\ client.extract.pc = "delay" =>
                  Settled(client) /\ upTo < Len(sel))
  /\ [][(~client.isExtracting /\ client'.isExtracting) =>
          /\ client'.extract.selectedVideos = filterSelected(client.videos)
          /\ client'.extract.i = 0]_vars
  /\ [][client.isExtracting =>
          /\ client'.extract.selectedVideos = client.extract.selectedVideos
          /\ (client'.order # client.order) =>
               /\ Settled(client)
               /\ client.extract.pc = "delay"
               /\ client.extract.timer = 0
               /\ client'.extract.i = client.extract.i + 5
          /\ (client.extract.pc = "batch" /\ client'.extract.pc # "batch") =>
               /\ Settled(client)
               /\ IF Len(client.order) < Len(client.extract.selectedVideos)
                    THEN /\ client'.extract.pc = "delay"
                         /\ client'.extract.timer = 2000
                    ELSE /\ client'.extract.pc = "idle"
                         /\ ~client'.isExtracting
          /\ (client.extract.pc = "delay" /\ client'.extract.pc = "delay") =>
               \/ client'.extract.timer = client.extract.timer
               \/ /\ client'.extract.timer = Left(client.extract.timer)
                  /\ TimePasses
          /\ (client.extract.pc = "delay" /\ client'.extract.pc # "delay") =>
               /\ client'.extract.pc = "batch"
               /\ client'.order # client.order]_vars

\* Six videos are selected; the five of the first batch have settled and
\* the sixth, the second batch, is in progress.
C35_Witness ==
  /\ client.isExtracting
  /\ Ids(client.extract.selectedVideos) = << 1, 2, 3, 4, 5, 6 >>
  /\ client.order = << 1, 2, 3, 4, 5, 6 >>
  /\ client.extract.i = 5
  /\ Processing(client) = {6}
  /\ \E k \in 1..5 : client.processing[k].status = "error"

\* C36: the status of a video goes from pending to processing and from
\* processing to completed or to error, and no other way, until the next
\* extraction or until the list is cleared; a step that writes error to the status of one video leaves
\* the status of every other video as it was; when handleExtract is over
\* isExtracting is false and no status is pending or processing.
C36_StatusMoves ==
  /\ [][\/ ~client.isExtracting /\ client'.isExtracting
        \/ clearSearch
        \/ /\ Len(client'.processing) = Len(client.processing)
           /\ \A k \in 1..Len(client.processing) :
                LET before == client.processing[k]
                    after == client'.processing[k]
                IN /\ after.videoId = before.videoId
                   /\ \/ after = before
                      \/ /\ before.status = "pending"
                         /\ after.status = "processing"
                      \/ /\ before.status = "processing"
                         /\ after.status \in {"completed", "error"}
                   /\ (after.status = "error" /\ before.status # "error") =>
                        \A j \in 1..Len(client.processing) :
                          j # k => client'.processing[j] = client.processing[j]]_vars
  /\ [](/\ client.isExtracting <=> client.extract.pc # "idle"
        /\ ~client.isExtracting =>
             \A k \in 1..Len(client.processing) :
               client.processing[k].status \in {"completed", "error"})

\* An extraction of six videos is over: one shows error, five completed.
C36_Witness ==
  /\ ~client.isExtracting
  /\ Len(client.processing) = 6
  /\ \E k \in 1..6 :
       /\ client.processing[k].status = "error"
       /\ client.processing[k].progress = 0
       /\ \A j \in 1..6 :
            j # k => /\ client.processing[j].status = "completed"
                     /\ client.processing[j].progress = 100

====
